---- MODULE Spec2Model ----
(***************************************************************************)
(* dh-dbutilities: the transaction coordinator and the pooled statement   *)
(* operations of the MySQL, PostgreSQL and MSSQL adapters (Spec, SpecPlain,*)
(* SpecStatements), the Facade of index.js with the adapters' module state *)
(* (SpecFacade), and the placeholder translation (SpecTranslate).          *)
(*                                                                         *)
(* Every handler of the source (a getConnection/begin/commit/rollback/     *)
(* query callback) is one action.  What a handler does is a command list   *)
(* computed by an operator named after the callback it models; Exec        *)
(* performs the list: "release" returns the connection to the pool,        *)
(* "callback" is the caller's callback, "issue" is a driver call whose     *)
(* completion is a later action.  log[o] is the history of operation o:    *)
(* the completion events it received and the commands it performed.        *)
(***************************************************************************)
EXTENDS Integers, Sequences, FiniteSets, TLC

\* ------------------------------------------------------------------ bounds
NumOps == 2
NumConns == 1

Ops == 1..NumOps
Conns == 1..NumConns

\* ------------------------------------------------------------- vocabulary
MYSQL == "mysql-adapter"
POSTGRESQL == "postgresql-adapter"
MSSQL == "mssql-adapter"
Adapters == {MYSQL, POSTGRESQL, MSSQL}

\* the adapters that take a connection from a pool in their own code.
PooledAdapters == {MYSQL, POSTGRESQL}

\* the adapters whose begin / commit / rollback sequence is in their own code
\* (the PostgreSQL adapter hands it to the pg-transact helper).
CoordinatorAdapters == {MYSQL, MSSQL}

NoErr == "none"
UowErrors == {"uowErr", "stmtErr"}

\* the non-transactional operations that use a pooled connection.
PlainOps(a) ==
  IF a = MYSQL
    THEN {"runStringQuery", "runQuery", "runStatement", "runBulkInsert",
          "runStatementReturnResult", "executeStoredProcedure"}
    ELSE IF a = POSTGRESQL
      THEN {"runStringQuery", "runQuery", "runStatement",
            "runStatementReturnResult", "executeStoredProcedure"}
      ELSE {}

\* ---------------------------------------------------------------- commands
Release == <<"release", "adapter">>
HelperRelease == <<"release", "helper">>
DestroyClient == <<"destroy", "client">>
Callback(e) == <<"callback", e>>
Issue(call) == <<"issue", call>>
InvokeUow == <<"invoke", "uow">>

\* ---------------------------------------------------- the Facade: vocabulary
NumServers == 2
MaxConnecting == 2

Null == "null"
\* an adapter name for which database-adapters/ holds no module.
UNKNOWN == "no-such-adapter"

\* the options object given to configure: its adapterName (Null: not set) and
\* the connection settings, here the server.
Options == [adapterName : Adapters \cup {Null, UNKNOWN}, server : 1..NumServers]
NoOptions == [adapterName |-> Null, server |-> 0]

PublicOps ==
  {"runStringQuery", "runQuery", "runStatement", "runBulkInsert",
   "runStatementReturnResult", "runStatementInTransaction",
   "runStatementInTransactionReturnResult", "executeStoredProcedure",
   "runTransaction", "close", "getSessionStore"}
InTransactionOps ==
  {"runStatementInTransaction", "runStatementInTransactionReturnResult"}

\* the messages of the errors this layer creates itself.
NotConfigured == "Module not configured."
AdapterNameNotSet == "Adapter name is not set."
PoolNotInitialized == "Connection pool not initialized."
SessionPoolNotInitialized == "DB connection pool not initialized."
PgNotInitialized == "Postgres adapter is not initialized."
PgDriverNotInitialized == "DB driver not initialized."
BulkNotSupported == "Bulk insert not supported for mssql adapter."
LayerErrors ==
  {NotConfigured, AdapterNameNotSet, PoolNotInitialized,
   SessionPoolNotInitialized, PgNotInitialized, PgDriverNotInitialized,
   BulkNotSupported}

\* an exception that leaves the called function instead of a callback.
Throw(e) == <<"throw", e>>
TypeError == "TypeError"
ModuleNotFound == "MODULE_NOT_FOUND"

VARIABLES
  adapter,    \* currentAdapterName: the adapter the Facade forwards to
  free,       \* the pool: the connections no operation has checked out
  pc,         \* per operation: the driver call it waits for
  kind,       \* per operation: the exported function that was called
  conn,       \* per operation: the connection its callbacks refer to (0: none)
  owns,       \* per operation: acquired and not yet released
  txState,    \* per operation: Idle / Begun / Committed / RolledBack
  uow,        \* per operation: the unit of work (notStarted/running/signalled)
  err,        \* per operation: the err its pending closure has captured
  stmtBusy,   \* per operation: a statement is executing on the handle
  log         \* per operation: events received and commands performed

\* the Facade (index.js) and the adapters' module state.
VARIABLES
  isConfigured,    \* index.js isConfigured
  currentAdapter,  \* index.js currentAdapter: the adapter module loaded
  dbOptions,       \* index.js dbOptions
  poolReady,       \* per adapter: pool / poolInitialized / connectionString set
  connecting,      \* sql.connect calls of the MSSQL adapter still in flight
  lastCall         \* the most recent Facade or adapter call and what it did

fvars == <<isConfigured, currentAdapter, dbOptions, poolReady, connecting,
          lastCall>>

\* the placeholder translation of one statement call.
VARIABLES
  statement,  \* the caller's statement text, a sequence of characters
  params,     \* the caller's parameter list
  sent        \* what the adapter handed to the driver

tvars == <<statement, params, sent>>

\* the result of one call on its way back to the caller.
VARIABLES
  results,    \* the results argument of a Facade callback or of joinResultSets
  delivered   \* what the Facade hands to the caller

rvars == <<results, delivered>>

vars == <<adapter, free, pc, kind, conn, owns, txState, uow, err, stmtBusy,
          log, fvars, tvars, rvars>>

\* --------------------------------------------------------------- log helpers
Idx(l, x) == {i \in DOMAIN l : l[i] = x}
Has(l, x) == Idx(l, x) # {}
Count(l, x) == Cardinality(Idx(l, x))
IdxOf(l, tag) == {i \in DOMAIN l : l[i][1] = tag}
\* every x of l has some y before it.
Preceded(l, x, y) == \A j \in Idx(l, x) : \E i \in Idx(l, y) : i < j
\* no x of l comes after a y.
NeverAfter(l, x, y) == \A j \in Idx(l, x) : \A i \in Idx(l, y) : j < i
CallbackErrs(l) == {l[i][2] : i \in IdxOf(l, "callback")}

Max(S) == CHOOSE m \in S : \A n \in S : n <= m

\* ------------------------------------------------ handlers: MySQL adapter
\* runQuery / runStatement / ... and runTransaction: the getConnection
\* callback.  On an error the driver passes no connection, so there is
\* nothing to release.
MysqlGetConnectionCallback(k, e) ==
  IF e # NoErr
    THEN <<Callback(e)>>
    ELSE IF k = "runTransaction" THEN <<Issue("begin")>> ELSE <<Issue("query")>>

\* connection.query callback of the plain operations.
MysqlQueryCallback(k, e) == <<Release, Callback(e)>>

\* variant: the begin error is reported without returning the connection.
MysqlBeginCallback_NoRelease(e) ==
  IF e # NoErr THEN <<Callback(e)>> ELSE <<InvokeUow>>

\* variant: the commit is issued next to the unit of work instead of inside
\* its completion signal.
MysqlBeginCallback_CommitsAtOnce(e) ==
  IF e # NoErr THEN <<Release, Callback(e)>> ELSE <<InvokeUow, Issue("commit")>>

\* connection.beginTransaction callback.
MysqlBeginCallback(e) ==
  IF e # NoErr THEN <<Release, Callback(e)>> ELSE <<InvokeUow>>

\* the completion signal handed to executeFunction.
MysqlExecuteFunctionCallback(e) ==
  IF e # NoErr THEN <<Issue("rollback")>> ELSE <<Issue("commit")>>

\* variant: the test of the commit error is inverted.
MysqlCommitCallback_Inverted(e) ==
  IF e = NoErr THEN <<Issue("rollback")>> ELSE <<Release, Callback(NoErr)>>

\* connection.commit callback.
MysqlCommitCallback(e) ==
  IF e # NoErr THEN <<Issue("rollback")>> ELSE <<Release, Callback(NoErr)>>

\* variant: the caller is called back before the connection is released.
MysqlRollbackCallback_CallbackFirst(closureErr, e) ==
  <<Callback(closureErr), Release>>

\* connection.rollback callback: takes no argument, delivers the err of the
\* enclosing closure (the unit of work's, or the failed commit's).
MysqlRollbackCallback(closureErr, e) == <<Release, Callback(closureErr)>>

\* ------------------------------------------------ handlers: MSSQL adapter
MssqlRunTransaction == <<Issue("begin")>>

\* variant: the error branch lacks its return and falls through.
MssqlBeginCallback_NoReturn(e) ==
  IF e # NoErr THEN <<Callback(e), InvokeUow>> ELSE <<InvokeUow>>

MssqlBeginCallback(e) ==
  IF e # NoErr THEN <<Callback(e)>> ELSE <<InvokeUow>>

MssqlExecuteFunctionCallback(er) ==
  IF er # NoErr THEN <<Issue("rollback")>> ELSE <<Issue("commit")>>

\* variant: a failed commit is followed by a rollback, as in the MySQL adapter.
MssqlCommitCallback_RollsBack(e) ==
  IF e # NoErr THEN <<Issue("rollback")>> ELSE <<Callback(e)>>

MssqlCommitCallback(e) == <<Callback(e)>>

\* variant: the rollback's own error is passed on when there is one.
MssqlRollbackCallback_RollbackErrWins(er, e) ==
  <<Callback(IF e # NoErr THEN e ELSE er)>>

\* a rollback error e is only written to the console.
MssqlRollbackCallback(er, e) == <<Callback(er)>>

\* runQuery and runStatementInTransaction of the MSSQL adapter: a prepared
\* statement is prepared, executed and un-prepared.
MssqlPrepareCallback(e) ==
  IF e # NoErr THEN <<Callback(e)>> ELSE <<Issue("execute")>>

\* variant: a failed execute calls back without the un-prepare.
MssqlExecuteCallback_NoUnprepareOnError(er) ==
  IF er # NoErr THEN <<Callback(er)>> ELSE <<Issue("unprepare")>>

\* ps.execute callback: un-prepare, whatever er is.
MssqlExecuteCallback(er) == <<Issue("unprepare")>>

\* ps.unprepare callback: its own error e is only written to the console.
\* err is the prepare callback's argument, er the execute callback's.
\* runQuery calls back with err, runStatementInTransaction with er.
MssqlUnprepareCallback(k, perr, er, e) ==
  IF k = "runQuery" THEN <<Callback(perr)>> ELSE <<Callback(er)>>

\* runStatement of the MSSQL adapter: the statement in a transaction of its
\* own.  The result set goes to the caller with the commit's callback only.
PassResult == <<"result", "resultSet">>

MssqlRunStatement == <<Issue("begin")>>

\* transaction.begin callback: runStatementInTransaction prepares.
MssqlStatementBeginCallback(e) ==
  IF e # NoErr THEN <<Callback(e)>> ELSE <<Issue("prepare")>>

\* variant: the statement's outcome is not looked at, the commit follows.
MssqlStatementCallback_AlwaysCommits(e) == <<Issue("commit")>>

\* the callback runStatement gives to runStatementInTransaction.
MssqlStatementCallback(e) ==
  IF e # NoErr THEN <<Issue("rollback")>> ELSE <<Issue("commit")>>

\* transaction.rollback callback: e is only written to the console, err is
\* the statement's error.
MssqlStatementRollbackCallback(stmtErr, e) == <<Callback(stmtErr)>>

\* transaction.commit callback.
MssqlStatementCommitCallback(e) == <<PassResult, Callback(e)>>

\* what runStatementInTransaction does with its callback: in runStatement
\* the callback is runStatement's closure, elsewhere the caller's.
CallsBack(k, cmds) ==
  IF k = "runStatement" /\ cmds[Len(cmds)][1] = "callback"
    THEN SubSeq(cmds, 1, Len(cmds) - 1)
           \o << <<"statementDone", cmds[Len(cmds)][2]>> >>
           \o MssqlStatementCallback(cmds[Len(cmds)][2])
    ELSE cmds

\* ------------------------------------------- handlers: PostgreSQL adapter
\* pg.connect callback: on an error done(client) discards the client.
PgConnectCallback(k, e) ==
  IF e # NoErr
    THEN <<DestroyClient, Callback(e)>>
    ELSE IF k = "runTransaction"
      THEN <<Issue("pgTransaction")>>
      ELSE <<Issue("query")>>

\* variant: the client is returned to the pool only when the query succeeded.
PgQueryCallback_LeakOnError(k, e) ==
  IF e # NoErr THEN <<Callback(e)>> ELSE <<Release, Callback(e)>>

\* client.query callback of the plain operations.
PgQueryCallback(k, e) == <<Release, Callback(e)>>

\* the two handlers given to the helper's promise: done(), then the callback.
PgThen(e) == <<Release, Callback(e)>>

\* pg-transact, the helper that runs BEGIN, the unit of work and COMMIT or
\* ROLLBACK on the client and settles a promise.  It is given the pool's
\* done function; callsDone is whether it calls it when it finishes.
Settle(e) == <<"settle", e>>
PgHelperFinish(callsDone, e) ==
  (IF callsDone THEN <<HelperRelease>> ELSE << >>) \o <<Settle(e)>>
PgHelperBeginCallback(callsDone, e) ==
  IF e # NoErr THEN PgHelperFinish(callsDone, e) ELSE <<InvokeUow>>
PgHelperExecuteFunctionCallback(e) ==
  IF e # NoErr THEN <<Issue("rollback")>> ELSE <<Issue("commit")>>
PgHelperCommitCallback(callsDone, e) == PgHelperFinish(callsDone, e)
PgHelperRollbackCallback(callsDone, closureErr, e) ==
  PgHelperFinish(callsDone, closureErr)

\* ------------------------------------------------------ dispatch by adapter
GetConnectionCallback(a, k, e) ==
  IF a = MYSQL THEN MysqlGetConnectionCallback(k, e) ELSE PgConnectCallback(k, e)

QueryCallback(a, k, e) ==
  IF a = MYSQL THEN MysqlQueryCallback(k, e) ELSE PgQueryCallback(k, e)

BeginCallback(a, callsDone, e) ==
  CASE a = MYSQL -> MysqlBeginCallback(e)
    [] a = MSSQL -> MssqlBeginCallback(e)
    [] a = POSTGRESQL -> PgHelperBeginCallback(callsDone, e)

ExecuteFunctionCallback(a, e) ==
  CASE a = MYSQL -> MysqlExecuteFunctionCallback(e)
    [] a = MSSQL -> MssqlExecuteFunctionCallback(e)
    [] a = POSTGRESQL -> PgHelperExecuteFunctionCallback(e)

CommitCallback(a, callsDone, e) ==
  CASE a = MYSQL -> MysqlCommitCallback(e)
    [] a = MSSQL -> MssqlCommitCallback(e)
    [] a = POSTGRESQL -> PgHelperCommitCallback(callsDone, e)

RollbackCallback(a, callsDone, closureErr, e) ==
  CASE a = MYSQL -> MysqlRollbackCallback(closureErr, e)
    [] a = MSSQL -> MssqlRollbackCallback(closureErr, e)
    [] a = POSTGRESQL -> PgHelperRollbackCallback(callsDone, closureErr, e)

\* ------------------------------------------------- handlers: adapter modules
\* configure of an adapter, on the module state st (the Facade's variables
\* and the adapters' pools); out is what the call did.  The MySQL adapter
\* creates its pool unless it has one, the PostgreSQL adapter builds its
\* connection string, and both call back at once.
MysqlConfigure(st) ==
  [st EXCEPT !.poolReady[MYSQL] = TRUE, !.out = <<Callback(NoErr)>>]

PgConfigure(st) ==
  [st EXCEPT !.poolReady[POSTGRESQL] = TRUE, !.out = <<Callback(NoErr)>>]

\* the MSSQL adapter calls back at once when its pool is initialised and
\* otherwise starts sql.connect, whose callback comes later.
MssqlConfigure(st) ==
  IF st.poolReady[MSSQL]
    THEN [st EXCEPT !.out = <<Callback(NoErr)>>]
    ELSE [st EXCEPT !.out = <<Issue("sql.connect")>>]

\* the callback of sql.connect in the MSSQL adapter's configure.
MssqlConnectCallback(ready, e) == IF e # NoErr THEN ready ELSE TRUE

AdapterConfigure(a, st) ==
  CASE a = MYSQL -> MysqlConfigure(st)
    [] a = POSTGRESQL -> PgConfigure(st)
    [] a = MSSQL -> MssqlConfigure(st)

\* the synchronous part of each exported operation of the MySQL adapter:
\* pool is whether the module's pool variable is set.
MysqlOperation(op, pool) ==
  CASE op = "close" ->
         IF ~pool THEN <<Callback(NoErr)>> ELSE <<Issue("pool.end")>>
    [] op = "getSessionStore" ->
         IF ~pool THEN <<Callback(SessionPoolNotInitialized)>>
                  ELSE <<Callback(NoErr)>>
    [] op = "runTransaction" ->
         IF ~pool THEN <<Throw(TypeError)>> ELSE <<Issue("getConnection")>>
    [] op \in InTransactionOps ->
         IF ~pool THEN <<Callback(PoolNotInitialized)>> ELSE <<Issue("query")>>
    [] OTHER ->
         IF ~pool THEN <<Callback(PoolNotInitialized)>>
                  ELSE <<Issue("getConnection")>>

\* the PostgreSQL adapter: no runBulkInsert is exported; runTransaction and
\* the in-transaction operations do not look at the connection string.
PgOperation(op, ready) ==
  CASE op = "close" -> <<Callback(NoErr)>>
    [] op = "getSessionStore" ->
         IF ~ready THEN <<Callback(PgDriverNotInitialized)>>
                   ELSE <<Callback(NoErr)>>
    [] op = "runBulkInsert" -> <<Throw(TypeError)>>
    [] op = "runTransaction" -> <<Issue("getConnection")>>
    [] op \in InTransactionOps -> <<Issue("query")>>
    [] OTHER ->
         IF ~ready THEN <<Callback(PgNotInitialized)>>
                   ELSE <<Issue("getConnection")>>

\* the MSSQL adapter: every operation but runBulkInsert tests poolInitialized.
MssqlOperation(op, ready) ==
  CASE op = "runBulkInsert" -> <<Callback(BulkNotSupported)>>
    [] op = "close" ->
         IF ~ready THEN <<Callback(NoErr)>> ELSE <<Issue("sql.close")>>
    [] op = "getSessionStore" ->
         IF ~ready THEN <<Callback(SessionPoolNotInitialized)>>
                   ELSE <<Callback(NoErr)>>
    [] op = "runStringQuery" ->
         IF ~ready THEN <<Callback(PoolNotInitialized)>> ELSE <<Issue("query")>>
    [] op = "executeStoredProcedure" ->
         IF ~ready THEN <<Callback(PoolNotInitialized)>>
                   ELSE <<Issue("execute")>>
    [] op \in InTransactionOps \cup {"runQuery"} ->
         IF ~ready THEN <<Callback(PoolNotInitialized)>>
                   ELSE <<Issue("prepare")>>
    [] OTHER ->
         IF ~ready THEN <<Callback(PoolNotInitialized)>> ELSE <<Issue("begin")>>

AdapterOperation(a, op, ready) ==
  CASE a = MYSQL -> MysqlOperation(op, ready)
    [] a = POSTGRESQL -> PgOperation(op, ready)
    [] a = MSSQL -> MssqlOperation(op, ready)

\* --------------------------------------------------- handlers: the Facade
\* variant: the flag follows the last configure, a failed one clears it.
FacadeConfigureCallback_ClearsOnError(configured, e) == e = NoErr

\* the callback the Facade gives to the adapter's configure.
FacadeConfigureCallback(configured, e) ==
  IF e = NoErr THEN TRUE ELSE configured

\* the same callback when the adapter's configure has called it before
\* returning.
SyncCallback(configured, out) ==
  IF out = <<Callback(NoErr)>> THEN FacadeConfigureCallback(configured, NoErr)
                               ELSE configured

\* variant: a configure call never returns early.
FacadeConfigure_NoEarlyReturn(options, st) ==
  LET s1 == [st EXCEPT !.dbOptions = options, !.name = options.adapterName]
  IN IF options.adapterName = Null
       THEN [s1 EXCEPT !.out = <<Callback(AdapterNameNotSet)>>]
       ELSE IF options.adapterName = UNKNOWN
         THEN [s1 EXCEPT !.out = <<Throw(ModuleNotFound)>>]
         ELSE LET s2 == AdapterConfigure(options.adapterName,
                          [s1 EXCEPT !.currentAdapter = options.adapterName])
              IN [s2 EXCEPT !.isConfigured = SyncCallback(@, s2.out)]

\* variant: the adapter name is not tested, so that an unset name goes to
\* require, which finds no module.
FacadeConfigure_NoNameTest(options, st) ==
  IF st.isConfigured
    THEN [st EXCEPT !.out = <<Callback(NoErr)>>]
    ELSE LET s1 == [st EXCEPT !.dbOptions = options,
                              !.name = options.adapterName]
         IN IF options.adapterName \in {Null, UNKNOWN}
              THEN [s1 EXCEPT !.out = <<Throw(ModuleNotFound)>>]
              ELSE LET s2 == AdapterConfigure(options.adapterName,
                               [s1 EXCEPT !.currentAdapter =
                                            options.adapterName])
                   IN [s2 EXCEPT !.isConfigured = SyncCallback(@, s2.out)]

\* variant: a configured Facade returns early only for the adapter it has.
FacadeConfigure_SameNameOnly(options, st) ==
  IF st.isConfigured /\ options.adapterName = st.name
    THEN [st EXCEPT !.out = <<Callback(NoErr)>>]
    ELSE FacadeConfigure_NoEarlyReturn(options, st)

\* configure up to the return of the adapter's configure: the early return
\* when configured, the saved options and adapter name, the test of the name,
\* the require of the adapter module, and the adapter's configure with the
\* Facade's callback when the adapter calls back at once.
FacadeConfigure(options, st) ==
  IF st.isConfigured
    THEN [st EXCEPT !.out = <<Callback(NoErr)>>]
    ELSE LET s1 == [st EXCEPT !.dbOptions = options,
                              !.name = options.adapterName]
         IN IF options.adapterName = Null
              THEN [s1 EXCEPT !.out = <<Callback(AdapterNameNotSet)>>]
              ELSE IF options.adapterName = UNKNOWN
                THEN [s1 EXCEPT !.out = <<Throw(ModuleNotFound)>>]
                ELSE LET s2 == AdapterConfigure(options.adapterName,
                                 [s1 EXCEPT !.currentAdapter =
                                              options.adapterName])
                     IN [s2 EXCEPT !.isConfigured = SyncCallback(@, s2.out)]

\* an exported operation of the Facade: close and getSessionStore test
\* isConfigured, the others call the current adapter's function, and a call
\* on the null adapter raises a TypeError.
FacadeOperation(op, configured, cur, ready) ==
  IF op \in {"close", "getSessionStore"} /\ ~configured
    THEN <<Callback(NotConfigured)>>
    ELSE IF cur = Null
      THEN <<Throw(TypeError)>>
      ELSE AdapterOperation(cur, op, ready[cur])

\* whether the Facade hands the operation to the current adapter.
Forwards(op, configured, cur) ==
  ~(op \in {"close", "getSessionStore"} /\ ~configured) /\ cur # Null

\* -------------------------------------------------- placeholder translation
MaxStmtLen == 4
MaxPlaceholders == 10

\* the characters of a statement: the placeholder and two others.
Chars == {"?", "a", "b"}

\* a raw parameter value: its JavaScript type t and, for a number, the
\* fraction n / d.
Value(t, n, d) == [t |-> t, n |-> n, d |-> d]
DateValue == Value("date", 0, 1)
StringValue == Value("string", 0, 1)
IntValue == Value("number", 3, 1)
DecimalValue == Value("number", 7, 2)
BooleanValue == Value("boolean", 1, 1)
NullValue == Value("null", 0, 1)
\* what params[index] gives beyond the end of the list.
Undefined == Value("undefined", 0, 1)
\* an object that is neither a date nor a typed parameter (a buffer, {}).
ObjectValue == Value("object", 0, 1)
RawValueSeq ==
  <<IntValue, StringValue, DateValue, DecimalValue, BooleanValue, NullValue,
    ObjectValue>>
RawValues == {RawValueSeq[i] : i \in DOMAIN RawValueSeq}

Min(S) == CHOOSE m \in S : \A n \in S : m <= n
Range(f) == {f[x] : x \in DOMAIN f}
Placeholders(str) == Cardinality({i \in DOMAIN str : str[i] = "?"})

\* the statements: every text up to MaxStmtLen characters, and texts of up
\* to MaxPlaceholders placeholders, on their own and each behind an "a".
Statements ==
  UNION {[1..n -> Chars] : n \in 0..MaxStmtLen}
    \cup {[i \in 1..n |-> "?"] : n \in 0..MaxPlaceholders}
    \cup {[i \in 1..(2 * n) |-> IF i % 2 = 1 THEN "a" ELSE "?"] :
            n \in 0..MaxPlaceholders}

\* the parameter lists of length n: the raw values in turn, from each of
\* them as the first.
ParamLists(n) ==
  IF n < 0 THEN {}
  ELSE {[k \in 1..n |-> RawValueSeq[((k - 1 + r) % Len(RawValueSeq)) + 1]] :
          r \in 0..(Len(RawValueSeq) - 1)}

\* a statement with as many parameters as placeholders, one fewer or one more.
ParamListsFor(str) ==
  UNION {ParamLists(Placeholders(str) + d) : d \in {-1, 0, 1}}

Inputs == UNION {{<<str, p>> : p \in ParamListsFor(str)} : str \in Statements}

\* a typed-parameter object {name, type, value} of the MSSQL adapter.
TypedParam(name, type, value) ==
  [t |-> "object", name |-> name, type |-> type, value |-> value]
IdParam == TypedParam(<<"i", "d">>, "Int", IntValue)
NameParam == TypedParam(<<"n">>, "NVarChar", StringValue)
\* an object whose type is the empty string.
UntypedParam == TypedParam(<<"n">>, "", StringValue)
\* a second parameter declared under the name of IdParam.
IdAgainParam == TypedParam(<<"i", "d">>, "Int", DecimalValue)

\* lists of typed-parameter objects, and lists that mix them with raw values
\* (no null among these: params[i].name of null is a TypeError).
TypedLists ==
  {<<IdParam>>, <<IdParam, NameParam>>, <<NameParam, IdParam>>,
   <<UntypedParam>>, <<IdParam, NameParam, IdAgainParam>>}
MixedLists ==
  {<<IntValue, IdParam>>, <<IdParam, IntValue>>, <<StringValue, NameParam>>,
   <<DateValue, IdParam>>, <<NameParam, DecimalValue, IdParam>>}
TypedInputs ==
  {<<str, p>> : str \in UNION {[1..n -> Chars] : n \in 0..2},
                p \in TypedLists \cup MixedLists}

\* statements of words: a verb, placeholders, and a RETURNING clause or none.
Verbs == {"insert", "INSERT", "Insert", "update"}
ReturningStatements ==
  {<<verb>> \o body \o clause :
     verb \in Verbs,
     body \in {<< >>, <<"?">>, <<"a", "?">>, <<"?", "?">>},
     clause \in {<< >>, <<"returning", "b">>, <<"RETURNING", "b">>}}
ReturningInputs ==
  {<<str, [k \in 1..Placeholders(str) |-> RawValueSeq[k]]>> :
     str \in ReturningStatements}

AllInputs == Inputs \cup TypedInputs \cup ReturningInputs

\* Number.prototype.toString of a non-negative integer: its decimal digits.
DigitChars == <<"0", "1", "2", "3", "4", "5", "6", "7", "8", "9">>
RECURSIVE toString(_)
toString(n) ==
  IF n < 10 THEN <<DigitChars[n + 1]>>
            ELSE toString(n \div 10) \o <<DigitChars[(n % 10) + 1]>>

\* String.prototype.indexOf(ch, from), positions counted from 0.
IndexOf(str, ch, from) ==
  LET S == {j \in from..(Len(str) - 1) : str[j + 1] = ch}
  IN IF S = {} THEN -1 ELSE Min(S)

\* str.substr(0, i) and str.substr(i).
SubstrTo(str, i) == SubSeq(str, 1, i)
SubstrFrom(str, i) == SubSeq(str, i + 1, Len(str))

\* the loop of replacePlaceHolders (postgresql-adapter.js): i is the position
\* of the last match, index the next number.
RECURSIVE PgReplaceLoop(_, _, _)
PgReplaceLoop(str, i, index) ==
  LET j == IndexOf(str, "?", i + 1)
  IN IF j < 0
       THEN str
       ELSE PgReplaceLoop(SubstrTo(str, j) \o <<"$">> \o toString(index)
                            \o SubstrFrom(str, j + 1),
                          j, index + 1)

\* variant: the scan starts behind position 0.
replacePlaceHolders_SkipsFirst(str) == PgReplaceLoop(str, 0, 1)

replacePlaceHolders(str) == PgReplaceLoop(str, -1, 1)

\* the type the MSSQL adapter registers for a raw value.
isInt(v) == v.n % v.d = 0
\* variant: every number is registered as an integer.
getType_NoDecimal(v) ==
  IF v.t = "date" THEN "DateTime"
  ELSE IF v.t = "string" THEN "NVarChar"
  ELSE IF v.t = "number" THEN "Int"
  ELSE IF v.t = "boolean" THEN "Bit"
  ELSE "NVarChar"

getType(v) ==
  IF v.t = "date" THEN "DateTime"
  ELSE IF v.t = "string" THEN "NVarChar"
  ELSE IF v.t = "number" THEN (IF isInt(v) THEN "Int" ELSE "Decimal")
  ELSE IF v.t = "boolean" THEN "Bit"
  ELSE "NVarChar"

\* params[index] of a JavaScript array.
At(p, index) == IF index + 1 \in DOMAIN p THEN p[index + 1] ELSE Undefined

\* result.values[name] = v and ps.input(name, type): f extended or overwritten.
Put(f, name, v) ==
  [x \in DOMAIN f \cup {name} |-> IF x = name THEN v ELSE f[x]]

ParamString == <<"p", "a", "r", "a", "m">>

\* the loop of convertQueryAndParamsForMSSql: r holds the query text, the
\* values object and the inputs registered on the prepared statement.
RECURSIVE MssqlConvertLoop(_, _, _, _)
MssqlConvertLoop(r, p, i, index) ==
  LET j == IndexOf(r.sql, "?", i + 1)
      paramName == ParamString \o toString(index)
  IN IF j < 0
       THEN r
       ELSE MssqlConvertLoop(
              [sql |-> SubstrTo(r.sql, j) \o <<"@">> \o paramName
                         \o SubstrFrom(r.sql, j + 1),
               values |-> Put(r.values, paramName, At(p, index)),
               types |-> Put(r.types, paramName, getType(At(p, index)))],
              p, j, index + 1)

convertQueryAndParamsForMSSql(query, p) ==
  MssqlConvertLoop([sql |-> query, values |-> << >>, types |-> << >>], p, 0, 0)

\* the operations that send a statement with its parameters to the driver.
StatementOps == {"runQuery", "runStatement", "runStatementInTransaction"}

\* variant: the MySQL adapter numbers the placeholders as well.
MysqlSend_Numbered(op, str, p) ==
  [by |-> MYSQL, op |-> op, sql |-> replacePlaceHolders(str), values |-> p,
   types |-> << >>]

\* connection.query(statement, params, ...) of the MySQL adapter.
MysqlSend(op, str, p) ==
  [by |-> MYSQL, op |-> op, sql |-> str, values |-> p, types |-> << >>]

\* client.query(query, params, ...) of the PostgreSQL adapter.
PgSend(op, str, p) ==
  [by |-> POSTGRESQL, op |-> op, sql |-> replacePlaceHolders(str),
   values |-> p, types |-> << >>]

\* _.isObject(v), and v.type, v.name, v.value of an entry of the list.
isObject(v) == v.t \in {"date", "object"}
TypeOf(v) == IF "type" \in DOMAIN v THEN v.type ELSE "undefined"
NameOf(v) == IF "name" \in DOMAIN v THEN v.name ELSE <<"undefined">>
ValueOf(v) == IF "value" \in DOMAIN v THEN v.value ELSE Undefined
\* StringUtils.isEmpty of a type.
isEmpty(type) == type \in {"undefined", ""}

isObjectParams(paramsArray) ==
  \E i \in DOMAIN paramsArray :
    isObject(paramsArray[i]) /\ ~isEmpty(TypeOf(paramsArray[i]))

\* the loop of convertParamsObjectArrayToQueryObject.
RECURSIVE MssqlObjectLoop(_, _, _)
MssqlObjectLoop(r, p, i) ==
  IF i >= Len(p)
    THEN r
    ELSE MssqlObjectLoop(
           [sql |-> r.sql,
            values |-> Put(r.values, NameOf(p[i + 1]), ValueOf(p[i + 1])),
            types |-> Put(r.types, NameOf(p[i + 1]), TypeOf(p[i + 1]))],
           p, i + 1)

\* variant: the placeholders of the text are numbered as in the raw mode.
convertParamsObjectArrayToQueryObject_Rewrites(query, p) ==
  [MssqlObjectLoop([sql |-> query, values |-> << >>, types |-> << >>], p, 0)
     EXCEPT !.sql = convertQueryAndParamsForMSSql(query, << >>).sql]

convertParamsObjectArrayToQueryObject(query, p) ==
  MssqlObjectLoop([sql |-> query, values |-> << >>, types |-> << >>], p, 0)

\* ps.prepare(query.sql) and ps.execute(query.values) of the MSSQL adapter.
MssqlSend(op, str, p) ==
  LET query == IF isObjectParams(p)
                 THEN convertParamsObjectArrayToQueryObject(str, p)
                 ELSE convertQueryAndParamsForMSSql(str, p)
  IN [by |-> MSSQL, op |-> op, sql |-> query.sql, values |-> query.values,
      types |-> query.types]

Send(a, op, str, p) ==
  CASE a = MYSQL -> MysqlSend(op, str, p)
    [] a = POSTGRESQL -> PgSend(op, str, p)
    [] a = MSSQL -> MssqlSend(op, str, p)

\* the operations that also take the name of the id column.
ReturnResultOps ==
  {"runStatementReturnResult", "runStatementInTransactionReturnResult"}
IdFields == {"id", "key"}
\* what ' RETURNING ' + idField appends when idField is not passed.
UndefinedField == "undefined"

\* String.prototype.toLowerCase of a word.
Lower(word) ==
  CASE word \in {"INSERT", "Insert"} -> "insert"
    [] word = "RETURNING" -> "returning"
    [] OTHER -> word

\* stringUtilities.contains(str, word, caseSensitive) of dh-node-utilities.
contains(str, word, caseSensitive) ==
  \E i \in DOMAIN str :
    (IF caseSensitive THEN str[i] ELSE Lower(str[i])) = word

addReturningID(str, idField) ==
  IF contains(str, "insert", FALSE) /\ ~contains(str, "returning", FALSE)
    THEN str \o <<" RETURNING ", idField>>
    ELSE str

WithIdField(s, op, idField) ==
  [by |-> s.by, op |-> op, sql |-> s.sql, values |-> s.values,
   types |-> s.types, idField |-> idField]

\* runStatementReturnResult is this.runStatement, and the variant in a
\* transaction this.runStatementInTransaction, of the MySQL adapter.
MysqlSendReturnResult(op, str, p, idField) ==
  WithIdField(MysqlSend(op, str, p), op, idField)

\* client.query(query, params, ...) of the two operations of the PostgreSQL
\* adapter: runStatementReturnResult calls addReturningID(query).
PgSendReturnResult(op, str, p, idField) ==
  [by |-> POSTGRESQL, op |-> op,
   sql |-> IF op = "runStatementReturnResult"
             THEN addReturningID(replacePlaceHolders(str), UndefinedField)
             ELSE addReturningID(replacePlaceHolders(str), idField),
   values |-> p, types |-> << >>, idField |-> idField]

MssqlSendReturnResult(op, str, p, idField) ==
  WithIdField(MssqlSend(op, str, p), op, idField)

SendReturnResult(a, op, str, p, idField) ==
  CASE a = MYSQL -> MysqlSendReturnResult(op, str, p, idField)
    [] a = POSTGRESQL -> PgSendReturnResult(op, str, p, idField)
    [] a = MSSQL -> MssqlSendReturnResult(op, str, p, idField)

\* ------------------------------------------------------- result delivery
MaxRows == 2
MaxSets == 3

\* JavaScript values: undefined, an object with its fields, an array with
\* its elements, and a row with its columns.
UndefinedResult == [shape |-> "undefined"]
Object(fields) == [shape |-> "object", fields |-> fields]
Array(elems) == [shape |-> "array", elems |-> elems]
Row(cols) == [shape |-> "row", cols |-> cols]

RowValues == {Row([id |-> "7", b |-> "x"]), Row([id |-> "8", b |-> "y"])}
RowSets(n) == UNION {[1..k -> RowValues] : k \in 0..n}

\* what the drivers pass to the adapters' callbacks on success: the MySQL
\* packet of a statement, the PostgreSQL result, the MSSQL record set.
DriverError == "driverErr"
DriverResults(a) ==
  CASE a = MYSQL ->
         {Object([insertId |-> i, affectedRows |-> r]) :
            i \in {0, 42}, r \in {0, 1}}
    [] a = POSTGRESQL ->
         {Object([rows |-> Array(rs), rowCount |-> Len(rs)]) :
            rs \in RowSets(MaxRows)}
    [] a = MSSQL ->
         {Array(rs) : rs \in RowSets(MaxRows)} \cup {UndefinedResult}

\* row[idField]
Get(cols, name) == IF name \in DOMAIN cols THEN cols[name] ELSE "undefined"

\* variant: the MySQL branch reports the number of affected rows.
MysqlNewRowId_AffectedRows(res) ==
  Object(Put(res.fields, "newRowId", res.fields.affectedRows))

\* results.newRowId = results.insertId
MysqlNewRowId(res) ==
  Object(Put(res.fields, "newRowId", res.fields.insertId))

PgNewRowId(res, idField) ==
  IF "rows" \in DOMAIN res.fields /\ Len(res.fields.rows.elems) > 0
    THEN Object(Put(res.fields, "newRowId",
                    Get(res.fields.rows.elems[1].cols, idField)))
    ELSE res

\* variant: the MSSQL branch takes the id from the last row.
MssqlNewRowId_LastRow(res, idField) ==
  IF res.shape # "undefined" /\ Len(res.elems) > 0
    THEN Object([resultSet |-> res,
                 newRowId |-> Get(res.elems[Len(res.elems)].cols, idField)])
    ELSE res

MssqlNewRowId(res, idField) ==
  IF res.shape # "undefined" /\ Len(res.elems) > 0
    THEN Object([resultSet |-> res,
                 newRowId |-> Get(res.elems[1].cols, idField)])
    ELSE res

\* the callback the Facade's runStatementReturnResult and
\* runStatementInTransactionReturnResult hand to the adapter.
FacadeReturnResultCallback(name, idField, e, res) ==
  IF e # NoErr
    THEN [err |-> e, results |-> UndefinedResult]
    ELSE [err |-> NoErr,
          results |-> CASE name = MYSQL -> MysqlNewRowId(res)
                        [] name = POSTGRESQL -> PgNewRowId(res, idField)
                        [] name = MSSQL -> MssqlNewRowId(res, idField)
                        [] OTHER -> res]

\* the result sets joinResultSets is given: nothing, rows, or sets of rows.
JoinInputs(rows, sets) ==
  {UndefinedResult}
    \cup {Array(rs) : rs \in RowSets(rows)}
    \cup {Array([i \in DOMAIN l |-> Array(l[i])]) :
            l \in UNION {[1..k -> RowSets(rows)] : k \in 1..sets}}

isArray(v) == v.shape = "array"
\* the rows the inner loop pushes for the element rs.
Pushed(rs) == IF isArray(rs) THEN rs.elems ELSE << >>

RECURSIVE JoinLoop(_, _, _)
JoinLoop(newResults, elems, i) ==
  IF i >= Len(elems)
    THEN newResults
    ELSE JoinLoop(newResults \o Pushed(elems[i + 1]), elems, i + 1)

\* variant: the outer loop starts at the second result set.
joinResultSets_SkipsFirst(res) ==
  IF res.shape = "undefined" \/ Len(res.elems) = 0
    THEN res
    ELSE IF isArray(res.elems[1])
      THEN Array(JoinLoop(<< >>, res.elems, 1))
      ELSE res

joinResultSets(res) ==
  IF res.shape = "undefined" \/ Len(res.elems) = 0
    THEN res
    ELSE IF isArray(res.elems[1])
      THEN Array(JoinLoop(<< >>, res.elems, 0))
      ELSE res

\* -------------------------------------------------------- debug rendering
\* a string with its characters, a date with what its getters return, and
\* a whole number.
Text(chars) == [t |-> "string", chars |-> chars]
DateTime(y, mo, d, h, mi, sec, ms) ==
  [t |-> "date", year |-> y, month |-> mo, date |-> d, hours |-> h,
   minutes |-> mi, seconds |-> sec, milliseconds |-> ms]
Number(n) == Value("number", n, 1)

Marker == <<"[", "@", "]">>
RenderValueSeq ==
  <<Number(5), Text(<<"a", "'", "b">>), DateTime(2024, 0, 5, 7, 8, 9, 12),
    Text(Marker \o <<"a">>), NullValue, Text(<<"a">> \o Marker),
    BooleanValue, Text(<<"'", "'">>), DateTime(1999, 11, 31, 23, 59, 58, 999),
    Text(Marker \o <<"'">> \o Marker), Number(42), Text(<< >>)>>
RenderLists(n) ==
  IF n < 0 THEN {}
  ELSE {[k \in 1..n |->
           RenderValueSeq[((k - 1 + r) % Len(RenderValueSeq)) + 1]] :
          r \in 0..(Len(RenderValueSeq) - 1)}
RenderInputs(len) ==
  UNION {{<<str, p>> :
            p \in UNION {RenderLists(Placeholders(str) + d) :
                           d \in {-1, 0, 1}}} :
           str \in UNION {[1..n -> Chars] : n \in 0..len}}

\* str.lastIndexOf(pat, 0) === 0
StartsWith(str, pat) ==
  Len(str) >= Len(pat) /\ SubSeq(str, 1, Len(pat)) = pat

\* StringUtils.replaceAll: every match of the pattern, from the left.
RECURSIVE replaceAll(_, _, _)
replaceAll(stringValue, valueToReplace, replaceWith) ==
  IF stringValue = << >> THEN << >>
  ELSE IF StartsWith(stringValue, valueToReplace)
    THEN replaceWith
           \o replaceAll(SubSeq(stringValue, Len(valueToReplace) + 1,
                                Len(stringValue)),
                         valueToReplace, replaceWith)
    ELSE <<Head(stringValue)>>
           \o replaceAll(Tail(stringValue), valueToReplace, replaceWith)

RECURSIVE zeroPad(_, _)
zeroPad(number, length) ==
  IF Len(number) < length THEN zeroPad(<<"0">> \o number, length)
                          ELSE number

\* dateToString without a timezone.
dateToString(date) ==
  toString(date.year) \o <<"-">> \o zeroPad(toString(date.month + 1), 2)
    \o <<"-">> \o zeroPad(toString(date.date), 2)
    \o <<" ">> \o zeroPad(toString(date.hours), 2)
    \o <<":">> \o zeroPad(toString(date.minutes), 2)
    \o <<":">> \o zeroPad(toString(date.seconds), 2)
    \o <<".">> \o zeroPad(toString(date.milliseconds), 3)

\* final += v for a value that is neither a string nor a date.
Concatenated(v) ==
  CASE v.t = "number" -> toString(v.n)
    [] v.t = "boolean" -> <<"true">>
    [] v.t = "null" -> <<"null">>
    [] v.t = "undefined" -> <<"undefined">>
    [] OTHER -> <<"[object Object]">>

\* variant: a quote inside a string is copied as it is.
RenderParam_NoEscape(v) ==
  IF v.t = "string"
    THEN IF StartsWith(v.chars, Marker)
           THEN replaceAll(v.chars, Marker, <<"@">>)
           ELSE <<"'">> \o v.chars \o <<"'">>
    ELSE IF v.t = "date"
      THEN <<"'">> \o dateToString(v) \o <<"'">>
      ELSE Concatenated(v)

\* what one placeholder adds to final.
RenderParam(v) ==
  IF v.t = "string"
    THEN IF StartsWith(v.chars, Marker)
           THEN replaceAll(v.chars, Marker, <<"@">>)
           ELSE <<"'">> \o replaceAll(v.chars, <<"'">>, <<"\\", "'">>)
                  \o <<"'">>
    ELSE IF v.t = "date"
      THEN <<"'">> \o dateToString(v) \o <<"'">>
      ELSE Concatenated(v)

RECURSIVE QueryToStringLoop(_, _, _, _, _)
QueryToStringLoop(final, sqlText, p, i, paramsIndex) ==
  IF i >= Len(sqlText) THEN final
  ELSE IF sqlText[i + 1] = "?"
    THEN QueryToStringLoop(final \o RenderParam(At(p, paramsIndex)),
                           sqlText, p, i + 1, paramsIndex + 1)
    ELSE QueryToStringLoop(final \o <<sqlText[i + 1]>>, sqlText, p, i + 1,
                           paramsIndex)

queryToString(sqlText, p) == QueryToStringLoop(<< >>, sqlText, p, 0, 0)

\* -------------------------------------------------- statement builders
\* generateInsertObject(tableName, parameters) and generateUpdateObject(
\* tableName, parameters, conditions, conditionParams).  The parameters
\* object is the list of its properties in the order of for-in; own is
\* hasOwnProperty(key).
MaxKeys == 3

Property(key, value, own) == [key |-> key, value |-> value, own |-> own]
KeySeq == << <<"a">>, <<"b">>, <<"c">>, <<"d">>, <<"e">> >>
Keys(n) == {KeySeq[i] : i \in 1..n}
PropertyValues == {Number(1), Number(0), NullValue, Undefined}
Properties(n) ==
  {Property(k, v, TRUE) : k \in Keys(n), v \in PropertyValues}
    \cup {Property(k, Number(1), FALSE) : k \in Keys(n)}
ParameterObjects(n) ==
  UNION {{f \in [1..k -> Properties(n)] :
            \A i, j \in 1..k : f[i].key = f[j].key => i = j} : k \in 0..n}
TableNames == {<<"t">>, <<"u", "v">>}
Conditions == {<<"i", "=", "?">>, <<"1">>}
ConditionParams ==
  {<< >>, <<Number(5), NullValue>>, <<NullValue, Number(5)>>}

InsertInto == <<"I", "N", "S", "E", "R", "T", " ", "I", "N", "T", "O", " ">>
OpenParen == <<" ", "(">>
ValuesParen == <<")", " ", "V", "A", "L", "U", "E", "S", " ", "(">>
CloseParen == <<")">>
Comma == <<",", " ">>
UpdateText == <<"U", "P", "D", "A", "T", "E", " ">>
SetText == <<" ", "S", "E", "T", " ">>
EqualsMark == <<" ", "=", " ", "?", " ">>
WhereText == <<"W", "H", "E", "R", "E", " ">>

\* variant: the test is 'if (parameters[key])', which also drops 0.
InsertTakes_Truthy(property) ==
  property.own /\ property.value \notin {NullValue, Undefined, Number(0)}

\* parameters.hasOwnProperty(key) && parameters[key] != undefined
InsertTakes(property) ==
  property.own /\ property.value \notin {NullValue, Undefined}

\* the for-in loop of generateInsertObject from the i-th property on.
RECURSIVE InsertLoop(_, _, _)
InsertLoop(r, parameters, i) ==
  IF i > Len(parameters) THEN r
  ELSE IF InsertTakes(parameters[i])
    THEN LET sep == IF r.index # 0 THEN Comma ELSE << >>
         IN InsertLoop([index |-> r.index + 1,
                        columnNamesString |->
                          (r.columnNamesString \o sep) \o parameters[i].key,
                        valuePlaceHolders |->
                          (r.valuePlaceHolders \o sep) \o <<"?">>,
                        paramsArray |->
                          Append(r.paramsArray, parameters[i].value)],
                       parameters, i + 1)
    ELSE InsertLoop(r, parameters, i + 1)

generateInsertObject(tableName, parameters) ==
  LET r == InsertLoop([index |-> 0, columnNamesString |-> << >>,
                       valuePlaceHolders |-> << >>, paramsArray |-> << >>],
                      parameters, 1)
  IN Object([sql |-> InsertInto \o tableName \o OpenParen
                       \o r.columnNamesString \o ValuesParen
                       \o r.valuePlaceHolders \o CloseParen,
             params |-> r.paramsArray])

\* the for-in loop of generateUpdateObject from the i-th property on.
RECURSIVE UpdateLoop(_, _, _)
UpdateLoop(r, parameters, i) ==
  IF i > Len(parameters) THEN r
  ELSE IF parameters[i].own
    THEN LET sep == IF r.index # 0 THEN Comma ELSE << >>
         IN UpdateLoop([index |-> r.index + 1,
                        sql |-> ((r.sql \o sep) \o parameters[i].key)
                                  \o EqualsMark,
                        paramsArray |->
                          Append(r.paramsArray, parameters[i].value)],
                       parameters, i + 1)
    ELSE UpdateLoop(r, parameters, i + 1)

generateUpdateObject(tableName, parameters, conditions, conditionParams) ==
  LET r == UpdateLoop([index |-> 0,
                       sql |-> UpdateText \o tableName \o SetText,
                       paramsArray |-> << >>], parameters, 1)
  IN Object([sql |-> (r.sql \o WhereText) \o conditions,
             params |-> r.paramsArray \o conditionParams])

\* ------------------------------------------------------------ the executor
IsControl(cmd) == cmd[1] \in {"callback", "issue", "invoke", "settle"}

PcAfter(cmd) ==
  CASE cmd[1] = "callback" -> "done"
    [] cmd[1] = "invoke" -> "inUow"
    [] cmd[1] = "settle" -> "pgSettled"
    [] cmd = Issue("getConnection") -> "connecting"
    [] cmd = Issue("query") -> "querying"
    [] cmd = Issue("begin") -> "beginning"
    [] cmd = Issue("pgTransaction") -> "beginning"
    [] cmd = Issue("commit") -> "committing"
    [] cmd = Issue("rollback") -> "rollingBack"
    [] cmd = Issue("prepare") -> "preparing"
    [] cmd = Issue("execute") -> "executing"
    [] cmd = Issue("unprepare") -> "unpreparing"

\* operation o receives the events ev and performs cmds, holding connection c
\* (owned iff own) with the pool in state pool.  After the caller's callback
\* no closure of the operation is left to refer to the connection.
Exec(o, ev, cmds, c, own, pool) ==
  LET rel == \E i \in DOMAIN cmds : cmds[i][1] = "release"
      last == cmds[Max({i \in DOMAIN cmds : IsControl(cmds[i])})]
  IN /\ log' = [log EXCEPT ![o] = (@ \o ev) \o cmds]
     /\ pc' = [pc EXCEPT ![o] = PcAfter(last)]
     /\ conn' = [conn EXCEPT ![o] = IF PcAfter(last) = "done" THEN 0 ELSE c]
     /\ owns' = [owns EXCEPT ![o] = own /\ ~rel]
     /\ free' = IF rel /\ c # 0 THEN pool \cup {c} ELSE pool
     /\ uow' = [uow EXCEPT ![o] =
                  IF \E i \in DOMAIN cmds : cmds[i] = InvokeUow
                    THEN "running"
                    ELSE IF \E i \in DOMAIN ev : ev[i][1] = "signal"
                      THEN "signalled" ELSE @]

\* ------------------------------------------------------------------ actions
\* whether the helper calls the done function it was given; it plays no part
\* in the other adapters.
HelperChoices == IF adapter = POSTGRESQL THEN BOOLEAN ELSE {FALSE}

txvars == <<free, pc, kind, conn, owns, txState, uow, err, stmtBusy, log>>

\* no operation has been started.
OpsIdle ==
  /\ free = Conns
  /\ pc = [o \in Ops |-> "idle"]
  /\ kind = [o \in Ops |-> "none"]
  /\ conn = [o \in Ops |-> 0]
  /\ owns = [o \in Ops |-> FALSE]
  /\ txState = [o \in Ops |-> "Idle"]
  /\ uow = [o \in Ops |-> "notStarted"]
  /\ err = [o \in Ops |-> NoErr]
  /\ stmtBusy = [o \in Ops |-> FALSE]
  /\ log = [o \in Ops |-> << >>]

NoCall ==
  [op |-> "none", layer |-> "none", was |-> FALSE, opts |-> NoOptions,
   target |-> Null, ready |-> FALSE, out |-> << >>]

NoSent ==
  [by |-> Null, op |-> "none", sql |-> << >>, values |-> << >>,
   types |-> << >>]

NotDelivered ==
  [op |-> "none", idField |-> "none", err |-> NoErr,
   results |-> UndefinedResult]

\* no result is on its way.
ResultIdle ==
  /\ results = UndefinedResult
  /\ delivered = NotDelivered

\* no statement is being translated.
TranslatorIdle ==
  /\ statement = << >>
  /\ params = << >>
  /\ sent = NoSent
  /\ ResultIdle

\* the Facade after a successful configure for the adapter a.
Configured(a) ==
  /\ isConfigured = TRUE
  /\ currentAdapter = a
  /\ dbOptions = [adapterName |-> a, server |-> 1]
  /\ poolReady = [b \in Adapters |-> b = a]
  /\ connecting = 0
  /\ lastCall = NoCall

\* the operations run on a configured Facade.
Init ==
  /\ adapter \in Adapters
  /\ OpsIdle
  /\ Configured(adapter)
  /\ TranslatorIdle

\* a new call of an exported function in slot o: its closures start fresh.
Fresh(o, k, cmds) ==
  /\ pc[o] \in {"idle", "done"}
  /\ kind' = [kind EXCEPT ![o] = k]
  /\ log' = [log EXCEPT ![o] = cmds]
  /\ pc' = [pc EXCEPT ![o] = PcAfter(cmds[Len(cmds)])]
  /\ conn' = [conn EXCEPT ![o] = 0]
  /\ owns' = [owns EXCEPT ![o] = FALSE]
  /\ txState' = [txState EXCEPT ![o] = "Idle"]
  /\ uow' = [uow EXCEPT ![o] = "notStarted"]
  /\ err' = [err EXCEPT ![o] = NoErr]
  /\ stmtBusy' = [stmtBusy EXCEPT ![o] = FALSE]
  /\ UNCHANGED <<fvars, tvars, rvars, adapter, free>>

\* runStringQuery, runQuery, runStatement, runBulkInsert,
\* runStatementReturnResult, executeStoredProcedure of a pooled adapter: ask
\* the pool for a connection.
runPlain(o) ==
  \E k \in PlainOps(adapter) : Fresh(o, k, <<Issue("getConnection")>>)

\* runQuery, the plain operation that runs beside the transactions in Spec.
runQuery(o) ==
  /\ adapter \in PooledAdapters
  /\ Fresh(o, "runQuery", <<Issue("getConnection")>>)

\* runTransaction: MySQL and PostgreSQL ask the pool for a connection, MSSQL
\* creates a Transaction object and begins it.
runTransaction(o) ==
  /\ adapter \in Adapters
  /\ Fresh(o, "runTransaction",
           IF adapter = MSSQL THEN MssqlRunTransaction
                              ELSE <<Issue("getConnection")>>)

\* pool.getConnection / pg.connect calls back: with an error, or with a
\* connection that no other operation has checked out.
getConnectionCallback(o) ==
  /\ pc[o] = "connecting"
  /\ \/ Exec(o, << <<"connected", "connErr">> >>,
             GetConnectionCallback(adapter, kind[o], "connErr"),
             0, FALSE, free)
     \/ \E c \in free :
          Exec(o, << <<"connected", NoErr>> >>,
               GetConnectionCallback(adapter, kind[o], NoErr),
               c, TRUE, free \ {c})
  /\ UNCHANGED <<fvars, tvars, rvars, adapter, kind, txState, err, stmtBusy>>

\* the driver's query of a plain operation completes.
queryCallback(o) ==
  /\ pc[o] = "querying"
  /\ \E e \in {NoErr, "queryErr"} :
       Exec(o, << <<"queryDone", e>> >>, QueryCallback(adapter, kind[o], e),
            conn[o], owns[o], free)
  /\ UNCHANGED <<fvars, tvars, rvars, adapter, kind, txState, err, stmtBusy>>

\* BEGIN completes.
beginCallback(o) ==
  /\ pc[o] = "beginning"
  /\ \E e \in {NoErr, "beginErr"}, callsDone \in HelperChoices :
       /\ Exec(o, << <<"beginDone", e>> >>, BeginCallback(adapter, callsDone, e),
               conn[o], owns[o], free)
       /\ txState' = [txState EXCEPT ![o] = IF e = NoErr THEN "Begun" ELSE @]
       /\ err' = [err EXCEPT ![o] = e]
  /\ UNCHANGED <<fvars, tvars, rvars, adapter, kind, stmtBusy>>

\* the unit of work calls runStatementInTransaction (or
\* runStatementInTransactionReturnResult) with the handle it was given: the
\* adapter sends the statement on that handle.  The unit of work issues its
\* statements one at a time, before it signals completion.
runStatementInTransaction(o) ==
  /\ uow[o] = "running"
  /\ ~stmtBusy[o]
  /\ stmtBusy' = [stmtBusy EXCEPT ![o] = TRUE]
  /\ UNCHANGED <<fvars, tvars, rvars, adapter, free, pc, kind, conn, owns,
                 txState, uow, err, log>>

\* the statement completes and its result goes back to the unit of work.
statementCallback(o) ==
  /\ stmtBusy[o]
  /\ stmtBusy' = [stmtBusy EXCEPT ![o] = FALSE]
  /\ UNCHANGED <<fvars, tvars, rvars, adapter, free, pc, kind, conn, owns,
                 txState, uow, err, log>>

\* the unit of work signals completion, with an error or without: the
\* coordinator issues ROLLBACK or COMMIT.
executeFunctionCallback(o) ==
  /\ uow[o] = "running"
  /\ ~stmtBusy[o]
  /\ \E e \in UowErrors \cup {NoErr} :
       /\ Exec(o, << <<"signal", e>> >>, ExecuteFunctionCallback(adapter, e),
               conn[o], owns[o], free)
       /\ err' = [err EXCEPT ![o] = e]
  /\ UNCHANGED <<fvars, tvars, rvars, adapter, kind, txState, stmtBusy>>

\* COMMIT completes.
commitCallback(o) ==
  /\ pc[o] = "committing"
  /\ \E e \in {NoErr, "commitErr"}, callsDone \in HelperChoices :
       /\ Exec(o, << <<"commitDone", e>> >>,
               CommitCallback(adapter, callsDone, e), conn[o], owns[o], free)
       /\ txState' = [txState EXCEPT ![o] = IF e = NoErr THEN "Committed" ELSE @]
       /\ err' = [err EXCEPT ![o] = e]
  /\ UNCHANGED <<fvars, tvars, rvars, adapter, kind, stmtBusy>>

\* ROLLBACK completes.
rollbackCallback(o) ==
  /\ pc[o] = "rollingBack"
  /\ \E e \in {NoErr, "rollbackErr"}, callsDone \in HelperChoices :
       /\ Exec(o, << <<"rollbackDone", e>> >>,
               RollbackCallback(adapter, callsDone, err[o], e),
               conn[o], owns[o], free)
       /\ txState' = [txState EXCEPT ![o] = IF e = NoErr THEN "RolledBack" ELSE @]
  /\ UNCHANGED <<fvars, tvars, rvars, adapter, kind, err, stmtBusy>>

\* the helper's promise is settled: the PostgreSQL adapter's handler runs.
pgThen(o) ==
  /\ pc[o] = "pgSettled"
  /\ Exec(o, << >>, PgThen(err[o]), conn[o], owns[o], free)
  /\ UNCHANGED <<fvars, tvars, rvars, adapter, kind, txState, err, stmtBusy>>

Next ==
  \E o \in Ops :
    \/ runQuery(o)
    \/ runTransaction(o)
    \/ getConnectionCallback(o)
    \/ queryCallback(o)
    \/ beginCallback(o)
    \/ runStatementInTransaction(o)
    \/ statementCallback(o)
    \/ executeFunctionCallback(o)
    \/ commitCallback(o)
    \/ rollbackCallback(o)
    \/ pgThen(o)

Spec == Init /\ [][Next]_vars

\* the transactions alone, where every driver call completes and the unit
\* of work, which may run statements first, gives its completion signal.
NextTransactions ==
  \E o \in Ops :
    \/ runTransaction(o)
    \/ getConnectionCallback(o)
    \/ beginCallback(o)
    \/ runStatementInTransaction(o)
    \/ statementCallback(o)
    \/ executeFunctionCallback(o)
    \/ commitCallback(o)
    \/ rollbackCallback(o)
    \/ pgThen(o)

DriverCompletes ==
  \A o \in Ops :
    /\ WF_vars(getConnectionCallback(o))
    /\ WF_vars(beginCallback(o))
    /\ WF_vars(statementCallback(o))
    /\ SF_vars(executeFunctionCallback(o))
    /\ WF_vars(commitCallback(o))
    /\ WF_vars(rollbackCallback(o))
    /\ WF_vars(pgThen(o))

SpecTransactions == Init /\ [][NextTransactions]_vars /\ DriverCompletes

\* the plain operations alone, each of them under its own name, running
\* concurrently on a pooled adapter.
InitPlain == Init /\ adapter \in PooledAdapters

NextPlain ==
  \E o \in Ops :
    \/ runPlain(o)
    \/ getConnectionCallback(o)
    \/ queryCallback(o)

SpecPlain == InitPlain /\ [][NextPlain]_vars

\* ------------------------------------------- statements on all three adapters
\* runQuery or runStatementInTransaction of the MSSQL adapter with raw
\* parameters: the statement is prepared.
mssqlPrepare(o) ==
  /\ adapter = MSSQL
  /\ \E k \in {"runQuery", "runStatementInTransaction"} :
       Fresh(o, k, <<Issue("prepare")>>)

\* ps.prepare calls back.
prepareCallback(o) ==
  /\ pc[o] = "preparing"
  /\ \E e \in {NoErr, "prepareErr"} :
       /\ Exec(o, << <<"prepareDone", e>> >>,
               CallsBack(kind[o], MssqlPrepareCallback(e)),
               conn[o], owns[o], free)
       /\ err' = [err EXCEPT ![o] = e]
  /\ UNCHANGED <<fvars, tvars, rvars, adapter, kind, txState, stmtBusy>>

\* ps.execute calls back: er is kept by the closure of the un-prepare.
executeCallback(o) ==
  /\ pc[o] = "executing"
  /\ \E er \in {NoErr, "executeErr"} :
       /\ Exec(o, << <<"executeDone", er>> >>, MssqlExecuteCallback(er),
               conn[o], owns[o], free)
       /\ err' = [err EXCEPT ![o] = er]
  /\ UNCHANGED <<fvars, tvars, rvars, adapter, kind, txState, stmtBusy>>

\* ps.unprepare calls back.
unprepareCallback(o) ==
  /\ pc[o] = "unpreparing"
  /\ \E e \in {NoErr, "unprepareErr"} :
       LET i == CHOOSE j \in IdxOf(log[o], "prepareDone") : TRUE
       IN Exec(o, << <<"unprepareDone", e>> >>,
               CallsBack(kind[o], MssqlUnprepareCallback(kind[o],
                                    log[o][i][2], err[o], e)),
               conn[o], owns[o], free)
  /\ UNCHANGED <<fvars, tvars, rvars, adapter, kind, txState, err, stmtBusy>>

\* runStatement of the MSSQL adapter: a transaction is begun.
mssqlRunStatement(o) ==
  /\ adapter = MSSQL
  /\ Fresh(o, "runStatement", MssqlRunStatement)

\* transaction.begin of runStatement calls back.
statementBeginCallback(o) ==
  /\ pc[o] = "beginning" /\ kind[o] = "runStatement"
  /\ \E e \in {NoErr, "beginErr"} :
       Exec(o, << <<"beginDone", e>> >>, MssqlStatementBeginCallback(e),
            conn[o], owns[o], free)
  /\ UNCHANGED <<fvars, tvars, rvars, adapter, kind, txState, err, stmtBusy>>

\* transaction.commit of runStatement calls back.
statementCommitCallback(o) ==
  /\ pc[o] = "committing" /\ kind[o] = "runStatement"
  /\ \E e \in {NoErr, "commitErr"} :
       Exec(o, << <<"commitDone", e>> >>, MssqlStatementCommitCallback(e),
            conn[o], owns[o], free)
  /\ UNCHANGED <<fvars, tvars, rvars, adapter, kind, txState, err, stmtBusy>>

\* transaction.rollback of runStatement calls back.
statementRollbackCallback(o) ==
  /\ pc[o] = "rollingBack" /\ kind[o] = "runStatement"
  /\ \E e \in {NoErr, "rollbackErr"} :
       Exec(o, << <<"rollbackDone", e>> >>,
            MssqlStatementRollbackCallback(err[o], e),
            conn[o], owns[o], free)
  /\ UNCHANGED <<fvars, tvars, rvars, adapter, kind, txState, err, stmtBusy>>

NextStatements ==
  \E o \in Ops :
    \/ runPlain(o)
    \/ mssqlPrepare(o)
    \/ mssqlRunStatement(o)
    \/ getConnectionCallback(o)
    \/ queryCallback(o)
    \/ prepareCallback(o)
    \/ executeCallback(o)
    \/ unprepareCallback(o)
    \/ statementBeginCallback(o)
    \/ statementCommitCallback(o)
    \/ statementRollbackCallback(o)

SpecStatements == Init /\ [][NextStatements]_vars

\* ------------------------------------------------- translation: the actions
\* a statement and its raw parameters arrive at a configured adapter.
InitTranslate ==
  /\ adapter \in Adapters
  /\ OpsIdle
  /\ Configured(adapter)
  /\ \E input \in AllInputs : statement = input[1] /\ params = input[2]
  /\ sent = NoSent
  /\ ResultIdle

\* runQuery, runStatement or runStatementInTransaction translates the
\* statement and hands it to the driver.
sendStatement ==
  /\ \E op \in StatementOps : sent' = Send(adapter, op, statement, params)
  /\ UNCHANGED <<adapter, fvars, txvars, statement, params, rvars>>

\* runStatementReturnResult or runStatementInTransactionReturnResult does.
sendStatementReturnResult ==
  /\ \E op \in ReturnResultOps, idField \in IdFields :
       sent' = SendReturnResult(adapter, op, statement, params, idField)
  /\ UNCHANGED <<adapter, fvars, txvars, statement, params, rvars>>

NextTranslate == sendStatement \/ sendStatementReturnResult

SpecTranslate == InitTranslate /\ [][NextTranslate]_vars

\* ------------------------------------------- result delivery: the actions
\* a statement arrives at runStatementReturnResult of a configured Facade.
InitReturnResult ==
  /\ adapter \in Adapters
  /\ OpsIdle
  /\ Configured(adapter)
  /\ \E input \in ReturningInputs :
       statement = input[1] /\ params = input[2]
  /\ sent = NoSent
  /\ ResultIdle

\* the adapter calls the Facade's callback with an error or with the
\* driver's result, and the Facade calls the caller's.
returnResultCallback ==
  /\ sent.op \in ReturnResultOps
  /\ \E e \in {NoErr, DriverError}, res \in DriverResults(adapter) :
       LET given == IF e = NoErr THEN res ELSE UndefinedResult
           out == FacadeReturnResultCallback(adapter, sent.idField, e, given)
       IN /\ results' = given
          /\ delivered' = [op |-> sent.op, idField |-> sent.idField,
                            err |-> out.err, results |-> out.results]
  /\ UNCHANGED <<adapter, fvars, txvars, tvars>>

NextReturnResult == sendStatementReturnResult \/ returnResultCallback

SpecReturnResult == InitReturnResult /\ [][NextReturnResult]_vars

\* result sets are given to joinResultSets.
InitJoin ==
  /\ adapter \in Adapters
  /\ OpsIdle
  /\ Configured(adapter)
  /\ statement = << >> /\ params = << >> /\ sent = NoSent
  /\ results \in JoinInputs(MaxRows, MaxSets)
  /\ delivered = NotDelivered

\* joinResultSets(results)
joinResultSetsCall ==
  /\ delivered = NotDelivered
  /\ delivered' = [op |-> "joinResultSets", idField |-> "none",
                    err |-> NoErr, results |-> joinResultSets(results)]
  /\ UNCHANGED <<adapter, fvars, txvars, tvars, results>>

\* joinResultSets of what the earlier call returned.
joinResultSetsAgain ==
  /\ delivered.op = "joinResultSets"
  /\ results' = delivered.results
  /\ delivered' = [op |-> "joinResultSets", idField |-> "none",
                    err |-> NoErr,
                    results |-> joinResultSets(delivered.results)]
  /\ UNCHANGED <<adapter, fvars, txvars, tvars>>

NextJoin == joinResultSetsCall \/ joinResultSetsAgain

SpecJoin == InitJoin /\ [][NextJoin]_vars

\* ------------------------------------------ statement builders: actions
\* the arguments of the builders: the table and the parameters object, the
\* conditions and their parameters.  The builders need no configured adapter.
InitBuild ==
  /\ adapter = Null
  /\ currentAdapter = Null
  /\ isConfigured = FALSE
  /\ dbOptions = NoOptions
  /\ poolReady = [a \in Adapters |-> FALSE]
  /\ connecting = 0
  /\ lastCall = NoCall
  /\ OpsIdle
  /\ statement \in Conditions
  /\ params \in ConditionParams
  /\ sent = NoSent
  /\ \E tableName \in TableNames, parameters \in ParameterObjects(MaxKeys) :
       results = Object([tableName |-> tableName, parameters |-> parameters])
  /\ delivered = NotDelivered

generateInsertObjectCall ==
  /\ delivered' = [op |-> "generateInsertObject", idField |-> "none",
                    err |-> NoErr,
                    results |-> generateInsertObject(results.fields.tableName,
                                                     results.fields.parameters)]
  /\ UNCHANGED <<adapter, fvars, txvars, tvars, results>>

generateUpdateObjectCall ==
  /\ delivered' = [op |-> "generateUpdateObject", idField |-> "none",
                    err |-> NoErr,
                    results |-> generateUpdateObject(results.fields.tableName,
                                  results.fields.parameters, statement, params)]
  /\ UNCHANGED <<adapter, fvars, txvars, tvars, results>>

NextBuild ==
  \/ generateInsertObjectCall
  \/ generateUpdateObjectCall

SpecBuild == InitBuild /\ [][NextBuild]_vars

\* ---------------------------------------------- debug rendering: actions
InitRender ==
  /\ adapter \in Adapters
  /\ OpsIdle
  /\ Configured(adapter)
  /\ \E input \in RenderInputs(MaxStmtLen) :
       statement = input[1] /\ params = input[2]
  /\ sent = NoSent
  /\ ResultIdle

\* queryToString(sql, params) returns a string.
queryToStringCall ==
  /\ delivered' = [op |-> "queryToString", idField |-> "none", err |-> NoErr,
                    results |-> Text(queryToString(statement, params))]
  /\ UNCHANGED <<adapter, fvars, txvars, tvars, results>>

NextRender == queryToStringCall

SpecRender == InitRender /\ [][NextRender]_vars

\* ------------------------------------------------------ the Facade: actions
FacadeState ==
  [isConfigured |-> isConfigured, currentAdapter |-> currentAdapter,
   name |-> adapter, dbOptions |-> dbOptions, poolReady |-> poolReady,
   out |-> << >>]

\* the module as loaded: nothing configured.
InitFacade ==
  /\ adapter = Null
  /\ currentAdapter = Null
  /\ isConfigured = FALSE
  /\ dbOptions = NoOptions
  /\ poolReady = [a \in Adapters |-> FALSE]
  /\ connecting = 0
  /\ lastCall = NoCall
  /\ OpsIdle
  /\ TranslatorIdle

\* configure(options, callback) of the Facade.
configure ==
  \E options \in Options :
    LET st == FacadeConfigure(options, FacadeState)
        starts == st.out = <<Issue("sql.connect")>>
    IN /\ starts => connecting < MaxConnecting
       /\ isConfigured' = st.isConfigured
       /\ currentAdapter' = st.currentAdapter
       /\ adapter' = st.name
       /\ dbOptions' = st.dbOptions
       /\ poolReady' = st.poolReady
       /\ connecting' = IF starts THEN connecting + 1 ELSE connecting
       /\ lastCall' = [op |-> "configure", layer |-> "facade",
                   was |-> isConfigured, opts |-> options, target |-> Null,
                   ready |-> FALSE, out |-> st.out]
       /\ UNCHANGED <<txvars, tvars, rvars>>

\* sql.connect of the MSSQL adapter calls back: the adapter marks its pool
\* and calls the Facade's callback, which sets isConfigured and calls the
\* caller's.
sqlConnectCallback ==
  /\ connecting > 0
  /\ connecting' = connecting - 1
  /\ \E e \in {NoErr, "connectErr"} :
       /\ poolReady' = [poolReady EXCEPT ![MSSQL] = MssqlConnectCallback(@, e)]
       /\ isConfigured' = FacadeConfigureCallback(isConfigured, e)
       /\ lastCall' = [op |-> "configureCallback", layer |-> "facade",
                   was |-> isConfigured, opts |-> NoOptions, target |-> Null,
                   ready |-> FALSE, out |-> <<Callback(e)>>]
  /\ UNCHANGED <<adapter, currentAdapter, dbOptions, txvars, tvars, rvars>>

\* a call of one of the Facade's exported operations.
facadeOperation ==
  /\ \E op \in PublicOps :
       lastCall' = [op |-> op, layer |-> "facade", was |-> isConfigured,
                opts |-> NoOptions,
                target |-> IF Forwards(op, isConfigured, currentAdapter)
                             THEN currentAdapter ELSE Null,
                ready |-> (currentAdapter # Null /\ poolReady[currentAdapter]),
                out |-> FacadeOperation(op, isConfigured, currentAdapter,
                                        poolReady)]
  /\ UNCHANGED <<adapter, isConfigured, currentAdapter, dbOptions, poolReady,
                 connecting, txvars, tvars, rvars>>

\* a call of an exported operation of an adapter module itself.
adapterOperation ==
  /\ \E a \in Adapters, op \in PublicOps :
       lastCall' = [op |-> op, layer |-> "adapter", was |-> isConfigured,
                opts |-> NoOptions, target |-> a, ready |-> poolReady[a],
                out |-> AdapterOperation(a, op, poolReady[a])]
  /\ UNCHANGED <<adapter, isConfigured, currentAdapter, dbOptions, poolReady,
                 connecting, txvars, tvars, rvars>>

NextFacade ==
  \/ configure
  \/ sqlConnectCallback
  \/ facadeOperation
  \/ adapterOperation

SpecFacade == InitFacade /\ [][NextFacade]_vars

TypeOK ==
  /\ adapter \in Adapters \cup {Null, UNKNOWN}
  /\ free \subseteq Conns
  /\ conn \in [Ops -> 0..NumConns]
  /\ owns \in [Ops -> BOOLEAN]
  /\ txState \in [Ops -> {"Idle", "Begun", "Committed", "RolledBack"}]
  /\ uow \in [Ops -> {"notStarted", "running", "signalled"}]

\* ------------------------------------------------------- claim vocabulary
IsTx(o) == kind[o] = "runTransaction"
IsPlain(o) == kind[o] \in PlainOps(adapter)
Acquired(o) == Has(log[o], <<"connected", NoErr>>)
ReachedBegun(o) == Has(log[o], InvokeUow)
Releases(o) == Count(log[o], Release) + Count(log[o], HelperRelease)
\* some entry with one of the tags comes before position j of l.
TagBefore(l, tags, j) == \E i \in DOMAIN l : i < j /\ l[i][1] \in tags

\* C1: in the MySQL adapter's runTransaction the connection obtained for the
\* transaction is released exactly once on every exit path: never twice, and
\* once by the time the caller's callback has run.
C1_MysqlReleasedExactlyOnce ==
  adapter = MYSQL =>
    \A o \in Ops :
      IsTx(o) =>
        /\ Releases(o) <= 1
        /\ (pc[o] = "done" /\ Acquired(o)) => Releases(o) = 1

\* the commit-failure exit path, ended by a failed rollback, has released once.
C1_Witness ==
  \E o \in Ops :
    /\ adapter = MYSQL /\ IsTx(o) /\ pc[o] = "done"
    /\ Has(log[o], <<"commitDone", "commitErr">>)
    /\ Has(log[o], <<"rollbackDone", "rollbackErr">>)
    /\ Releases(o) = 1

\* C2: in the PostgreSQL adapter's runTransaction the pool's done function is
\* invoked exactly once per transaction, on the success and the failure path.
C2_PgDoneExactlyOnce ==
  adapter = POSTGRESQL =>
    \A o \in Ops :
      IsTx(o) =>
        /\ Releases(o) <= 1
        /\ (pc[o] = "done" /\ Acquired(o)) => Releases(o) = 1

\* C3: when the unit of work signals failure with error E, a rollback is
\* issued and the caller's callback receives exactly E, whether the rollback
\* succeeds or fails.
C3_UowErrorReachesCaller ==
  adapter \in CoordinatorAdapters =>
    \A o \in Ops : \A E \in UowErrors :
      (IsTx(o) /\ Has(log[o], <<"signal", E>>)) =>
        /\ Has(log[o], Issue("rollback"))
        /\ CallbackErrs(log[o]) \subseteq {E}
        /\ pc[o] = "done" => CallbackErrs(log[o]) = {E}

\* the rollback failed and the caller still received the unit of work's error.
C3_Witness ==
  \E o \in Ops :
    /\ adapter \in CoordinatorAdapters /\ IsTx(o) /\ pc[o] = "done"
    /\ Has(log[o], <<"signal", "uowErr">>)
    /\ Has(log[o], <<"rollbackDone", "rollbackErr">>)
    /\ CallbackErrs(log[o]) = {"uowErr"}

\* C4 as claimed: a success signal issues a commit; a failed commit delivers
\* the commit error and no rollback is issued after it, on every adapter.
C4_NoRollbackAfterFailedCommit ==
  \A o \in Ops :
    IsTx(o) =>
      /\ Has(log[o], <<"signal", NoErr>>) => Has(log[o], Issue("commit"))
      /\ Has(log[o], <<"commitDone", "commitErr">>) =>
           /\ NeverAfter(log[o], Issue("rollback"), <<"commitDone", "commitErr">>)
           /\ CallbackErrs(log[o]) \subseteq {"commitErr"}

\* C4 as amended: a success signal issues a commit; a failed commit delivers
\* the commit error; after it the MSSQL adapter issues no rollback, and the
\* MySQL adapter issues one rollback, whose outcome does not change the
\* error, before it releases the connection and calls back.
C4_CommitErrorReachesCaller ==
  adapter \in CoordinatorAdapters =>
    \A o \in Ops :
      IsTx(o) =>
        /\ Has(log[o], <<"signal", NoErr>>) => Has(log[o], Issue("commit"))
        /\ Has(log[o], <<"commitDone", "commitErr">>) =>
             /\ CallbackErrs(log[o]) \subseteq {"commitErr"}
             /\ pc[o] = "done" => CallbackErrs(log[o]) = {"commitErr"}
             /\ adapter = MSSQL => ~Has(log[o], Issue("rollback"))
             /\ adapter = MYSQL =>
                  /\ Count(log[o], Issue("rollback")) = 1
                  /\ Preceded(log[o], Issue("rollback"),
                              <<"commitDone", "commitErr">>)
                  /\ Preceded(log[o], Release, Issue("rollback"))

\* a failed commit on MSSQL: the commit error delivered, no rollback issued.
C4_Witness ==
  \E o \in Ops :
    /\ adapter = MSSQL /\ IsTx(o) /\ pc[o] = "done"
    /\ Has(log[o], <<"commitDone", "commitErr">>)
    /\ CallbackErrs(log[o]) = {"commitErr"}

\* C5: if begin fails, the begin error reaches the caller, the unit of work
\* is never invoked and neither commit nor rollback is issued; the unit of
\* work is invoked only after a successful begin.
C5_BeginFailure ==
  adapter \in CoordinatorAdapters =>
    \A o \in Ops :
      IsTx(o) =>
        /\ Has(log[o], <<"beginDone", "beginErr">>) =>
             /\ CallbackErrs(log[o]) = {"beginErr"}
             /\ ~Has(log[o], InvokeUow)
             /\ uow[o] = "notStarted"
             /\ ~Has(log[o], Issue("commit"))
             /\ ~Has(log[o], Issue("rollback"))
        /\ Preceded(log[o], InvokeUow, <<"beginDone", NoErr>>)
        /\ uow[o] # "notStarted" => Has(log[o], <<"beginDone", NoErr>>)

C5_Witness ==
  \E o \in Ops :
    /\ adapter \in CoordinatorAdapters /\ IsTx(o) /\ pc[o] = "done"
    /\ Has(log[o], <<"beginDone", "beginErr">>)
    /\ CallbackErrs(log[o]) = {"beginErr"}

\* C6: a transaction goes Idle -> Begun -> Committed or RolledBack, the end
\* states terminal and exclusive: no rollback is issued after a commit that
\* succeeded, no commit after the unit of work signalled failure.
C6_State ==
  adapter \in CoordinatorAdapters =>
    \A o \in Ops :
      IsTx(o) =>
        /\ NeverAfter(log[o], Issue("rollback"), <<"commitDone", NoErr>>)
        /\ \A E \in UowErrors :
             Has(log[o], <<"signal", E>>) => ~Has(log[o], Issue("commit"))
        /\ ~(Has(log[o], <<"commitDone", NoErr>>)
              /\ Has(log[o], <<"rollbackDone", NoErr>>))

\* within one call the state only moves along the machine's arrows (a new
\* call in the slot starts from a finished one).
C6_Step ==
  adapter \in CoordinatorAdapters =>
    \A o \in Ops :
      (pc[o] \notin {"idle", "done"} /\ txState'[o] # txState[o]) =>
        <<txState[o], txState'[o]>> \in
          {<<"Idle", "Begun">>, <<"Begun", "Committed">>,
           <<"Begun", "RolledBack">>}

C6_TransactionStateMachine == [](C6_State) /\ [][C6_Step]_vars

C6_Witness ==
  \E o \in Ops :
    /\ adapter \in CoordinatorAdapters /\ IsTx(o) /\ pc[o] = "done"
    /\ txState[o] = "RolledBack"
    /\ Has(log[o], <<"commitDone", "commitErr">>)

\* C7: for a runTransaction call that reached Begun, the commit or rollback
\* has completed and the connection has been released before the caller's
\* callback runs; the callback never runs while the connection is held.
C7_ConcludedBeforeCallback ==
  \A o \in Ops :
    (IsTx(o) /\ ReachedBegun(o)) =>
      /\ \A j \in IdxOf(log[o], "callback") :
           /\ TagBefore(log[o], {"commitDone", "rollbackDone"}, j)
           /\ adapter \in PooledAdapters => TagBefore(log[o], {"release"}, j)
      /\ pc[o] = "done" => ~owns[o]

C7_Witness ==
  \E o \in Ops :
    /\ adapter = POSTGRESQL /\ IsTx(o) /\ ReachedBegun(o) /\ pc[o] = "done"
    /\ Has(log[o], <<"commitDone", NoErr>>)

C9_PlainAcquireUseRelease ==
  adapter \in PooledAdapters =>
    \A o \in Ops :
      IsPlain(o) =>
        /\ Releases(o) <= 1
        /\ (pc[o] = "done" /\ Acquired(o)) => Releases(o) = 1
        /\ \A j \in Idx(log[o], Release) : TagBefore(log[o], {"queryDone"}, j)
        /\ Acquired(o) =>
             \A j \in IdxOf(log[o], "callback") :
               TagBefore(log[o], {"release"}, j)
        /\ Has(log[o], <<"connected", "connErr">>) =>
             /\ ~Has(log[o], Issue("query"))
             /\ Releases(o) = 0

C9_Witness ==
  \E o \in Ops :
    /\ adapter = POSTGRESQL /\ kind[o] = "runStatementReturnResult"
    /\ pc[o] = "done"
    /\ Has(log[o], <<"queryDone", "queryErr">>)
    /\ Releases(o) = 1

\* C10: no pooled connection is used by two operations at the same time:
\* between its acquisition and its release a connection belongs to the one
\* operation that acquired it.
C10_ExclusiveOwnership ==
  \A c \in Conns : Cardinality({o \in Ops : owns[o] /\ conn[o] = c}) <= 1

\* ------------------------------------------------------ claims: the Facade
IsFacadeCall == lastCall.layer = "facade" /\ lastCall.op \in PublicOps
IsAdapterCall == lastCall.layer = "adapter" /\ lastCall.op \in PublicOps
IsConfigureCall == lastCall.op = "configure"

\* C11: before the Facade has been configured, every public operation
\* delivers the 'Module not configured.' error to its callback.
C11_NotConfiguredError ==
  (IsFacadeCall /\ ~lastCall.was) =>
    lastCall.out = <<Callback(NotConfigured)>>

\* C12: a configure call made while isConfigured is true calls back without
\* an error and changes neither the adapter, the adapter name, the saved
\* options nor the adapter's pool state; the adapter's configure is not
\* called.
C12_Step ==
  (isConfigured /\ lastCall'.op = "configure") =>
    /\ lastCall'.out = <<Callback(NoErr)>>
    /\ UNCHANGED <<isConfigured, currentAdapter, adapter, dbOptions,
                   poolReady, connecting>>

C12_ConfigureIdempotent == [][C12_Step]_vars

\* a configure call for another adapter was made on a configured Facade.
C12_Witness ==
  /\ IsConfigureCall /\ lastCall.was
  /\ lastCall.opts.adapterName \in Adapters \ {adapter}
  /\ lastCall.out = <<Callback(NoErr)>>
  /\ dbOptions # lastCall.opts

\* C13: configure of an unconfigured Facade with options that carry no
\* adapter name delivers 'Adapter name is not set.', loads and configures no
\* adapter, and leaves isConfigured false.
C13_Step ==
  (~isConfigured /\ lastCall'.op = "configure"
     /\ lastCall'.opts.adapterName = Null) =>
    /\ lastCall'.out = <<Callback(AdapterNameNotSet)>>
    /\ ~isConfigured'
    /\ UNCHANGED <<currentAdapter, poolReady, connecting>>

C13_AdapterNameNotSet == [][C13_Step]_vars

\* the call came while an adapter loaded by an earlier call was still there.
C13_Witness ==
  /\ IsConfigureCall /\ ~lastCall.was
  /\ lastCall.opts.adapterName = Null
  /\ lastCall.out = <<Callback(AdapterNameNotSet)>>
  /\ ~isConfigured
  /\ currentAdapter = MSSQL

\* C14: once isConfigured is true, the current adapter and the adapter name
\* never change, whatever configure, close or query calls follow, and every
\* operation the Facade forwards goes to that adapter.
C14_Step ==
  isConfigured => (adapter' = adapter /\ currentAdapter' = currentAdapter)

C14_State ==
  (IsFacadeCall /\ lastCall.was) =>
    /\ lastCall.target = currentAdapter
    /\ lastCall.target \in Adapters

C14_EngineIdentityImmutable == [](C14_State) /\ [][C14_Step]_vars

\* close was forwarded to the adapter of a configured Facade whose sql.connect
\* from an earlier configure call is still in flight.
C14_Witness ==
  /\ IsFacadeCall /\ lastCall.was /\ lastCall.op = "close"
  /\ lastCall.target = currentAdapter
  /\ currentAdapter = POSTGRESQL
  /\ connecting > 0

\* C15: every operation of an adapter that is invoked before the adapter's
\* pool or driver has been initialised reports a layer-specific error through
\* its callback and throws nothing (close, which has nothing to report, set
\* aside).
C15_UninitializedReportsByCallback ==
  (IsAdapterCall /\ ~lastCall.ready /\ lastCall.op # "close") =>
    \E m \in LayerErrors : lastCall.out = <<Callback(m)>>

\* C16: on every adapter, when the driver reports an error while it executes
\* a parameterized query or statement, the caller's callback receives that
\* error; a failed execution is never delivered with a null error.
C16_DriverErrorReachesCaller ==
  \A o \in Ops :
    (kind[o] \in {"runQuery", "runStatement", "runStatementInTransaction"}
       /\ pc[o] = "done") =>
      /\ Has(log[o], <<"queryDone", "queryErr">>) =>
           CallbackErrs(log[o]) = {"queryErr"}
      /\ Has(log[o], <<"executeDone", "executeErr">>) =>
           CallbackErrs(log[o]) = {"executeErr"}

\* C17: runBulkInsert through the Facade on the MSSQL or the PostgreSQL
\* adapter delivers an 'unsupported' error to the callback and issues no
\* statement to the driver.
C17_BulkInsertUnsupported ==
  (IsFacadeCall /\ lastCall.op = "runBulkInsert"
     /\ lastCall.target \in {MSSQL, POSTGRESQL}) =>
    lastCall.out = <<Callback(BulkNotSupported)>>

\* ------------------------------------------------- claims: the translation
\* the text in which the k-th placeholder from the left is replaced by the
\* prefix and the decimal numeral of first + k - 1, all else copied.
RECURSIVE Numbered(_, _, _)
Numbered(str, prefix, k) ==
  IF str = << >> THEN << >>
  ELSE IF Head(str) = "?"
    THEN (prefix \o toString(k)) \o Numbered(Tail(str), prefix, k + 1)
    ELSE <<Head(str)>> \o Numbered(Tail(str), prefix, k)

ParamName(k) == ParamString \o toString(k)

\* C18: the PostgreSQL adapter replaces the k-th '?' from the left by '$k',
\* k = 1..N, also for N >= 10, copies every other character, leaves no '?',
\* and hands the parameter list to the driver as it was given.
C18_PgNumberedPlaceholders ==
  sent.by = POSTGRESQL =>
    LET text == Numbered(statement, <<"$">>, 1)
    IN /\ sent.op \in StatementOps => sent.sql = text
       /\ SubSeq(sent.sql, 1, Len(text)) = text
       /\ "?" \notin Range(sent.sql)
       /\ sent.values = params

\* a text of ten placeholders, the first at position 0, has been translated:
\* the last of them became '$10'.
C18_Witness ==
  /\ sent.by = POSTGRESQL
  /\ Placeholders(statement) >= 10
  /\ Head(statement) = "?"
  /\ SubSeq(sent.sql, Len(sent.sql) - 2, Len(sent.sql)) = <<"$", "1", "0">>
  /\ sent.values = params

\* C19: the MSSQL adapter, for a statement with N '?' at any positions,
\* position 0 included, and exactly N raw parameters, replaces the k-th '?'
\* by '@param(k-1)', leaves no '?', and builds a values mapping of exactly N
\* entries, param(k-1) bound to the k-th value and registered with its type.
C19_MssqlNamedPlaceholders ==
  (sent.by = MSSQL /\ Len(params) = Placeholders(statement)
     /\ Range(params) \subseteq RawValues) =>
    LET N == Placeholders(statement)
    IN /\ sent.sql = Numbered(statement, <<"@">> \o ParamString, 0)
       /\ "?" \notin Range(sent.sql)
       /\ DOMAIN sent.values = {ParamName(k - 1) : k \in 1..N}
       /\ DOMAIN sent.types = {ParamName(k - 1) : k \in 1..N}
       /\ \A k \in 1..N :
            /\ sent.values[ParamName(k - 1)] = params[k]
            /\ sent.types[ParamName(k - 1)] = getType(params[k])

\* C20: runQuery, runStatement and runStatementInTransaction of the MySQL
\* adapter hand the driver the caller's statement text unchanged and the
\* parameter list in its original order.
C20_MysqlPassThrough ==
  (sent.by = MYSQL /\ sent.op \in StatementOps) =>
    /\ sent.sql = statement
    /\ sent.values = params

C20_Witness ==
  /\ sent.by = MYSQL /\ sent.op = "runStatementInTransaction"
  /\ Placeholders(statement) = 2 /\ Len(params) = 2
  /\ params[1] # params[2]
  /\ sent.sql = statement /\ sent.values = params

\* ------------------------------------------- claims: the parameter container
RawList(p) == Range(p) \subseteq RawValues
IsTyped(v) == v.t = "object" /\ "type" \in DOMAIN v /\ v.type # ""

\* C21: a statement with more '?' placeholders than raw parameter values
\* fails with a parameter-count error: it is never handed to the driver,
\* with an undefined parameter or otherwise.
C21_ShortListNotSent ==
  (RawList(params) /\ Len(params) < Placeholders(statement)) =>
    sent.by = Null

\* C22: when more raw values are supplied than the statement has '?'
\* placeholders, the container handed to the driver holds the first N
\* values in order and nothing else.
C22_SurplusDropped ==
  (sent.by # Null /\ RawList(params)
     /\ Len(params) > Placeholders(statement)) =>
    LET N == Placeholders(statement)
    IN IF sent.by = MSSQL
         THEN /\ DOMAIN sent.values = {ParamName(k - 1) : k \in 1..N}
              /\ \A k \in 1..N : sent.values[ParamName(k - 1)] = params[k]
         ELSE sent.values = SubSeq(params, 1, N)

\* C23: a list whose first entry is raw is never processed in typed mode
\* because a later entry carries a type: what the MSSQL adapter then binds
\* are the synthesized names of the placeholders, never the name of an entry.
C23_FirstEntryGoverns ==
  (sent.by = MSSQL /\ Len(params) > 0 /\ ~IsTyped(params[1])) =>
    DOMAIN sent.values \subseteq {ParamName(k) : k \in 0..Len(statement)}

\* the tag of a value: the cases exclude one another.
Tag(v) ==
  CASE v.t = "date" -> "DateTime"
    [] v.t = "string" -> "NVarChar"
    [] v.t = "number" /\ v.n % v.d = 0 -> "Int"
    [] v.t = "number" /\ v.n % v.d # 0 -> "Decimal"
    [] v.t = "boolean" -> "Bit"
    [] v.t \notin {"date", "string", "number", "boolean"} -> "NVarChar"

\* C24: every value bound in raw mode is registered with exactly one type:
\* date/time for a date, text for a string, integer for a number without a
\* fractional part, decimal for any other number, boolean for a boolean and
\* text for every other value (null, undefined, objects).
C24_TypeInference ==
  (sent.by = MSSQL /\ ~isObjectParams(params)) =>
    /\ DOMAIN sent.types = DOMAIN sent.values
    /\ \A name \in DOMAIN sent.types :
         sent.types[name] = Tag(sent.values[name])

\* one statement bound a value of every kind, undefined included.
C24_Witness ==
  /\ sent.by = MSSQL /\ ~isObjectParams(params)
  /\ RawValues \cup {Undefined} \subseteq Range(sent.values)
  /\ Range(sent.types) = {"DateTime", "NVarChar", "Int", "Decimal", "Bit"}
  /\ \E name \in DOMAIN sent.types :
       sent.values[name] = DecimalValue /\ sent.types[name] = "Decimal"

\* ------------------------------------------- claims: the RETURNING clause
\* C25: runStatementReturnResult and runStatementInTransactionReturnResult of
\* the PostgreSQL adapter send the numbered text followed by ' RETURNING '
\* and the caller's idField when the statement contains 'insert' in any case
\* and no 'returning', and the numbered text alone otherwise.
C25_ReturningIdField ==
  (sent.by = POSTGRESQL /\ sent.op \in ReturnResultOps) =>
    LET text == Numbered(statement, <<"$">>, 1)
        isInsert == \E i \in DOMAIN statement : Lower(statement[i]) = "insert"
        hasReturning ==
          \E i \in DOMAIN statement : Lower(statement[i]) = "returning"
    IN sent.sql = IF isInsert /\ ~hasReturning
                    THEN text \o <<" RETURNING ", sent.idField>>
                    ELSE text

\* C26: the operations in a transaction hand the driver the SQL text and the
\* parameter container that their counterparts outside a transaction hand
\* it for the same adapter, statement, parameter list and idField.
C26_SameNormalizationInTransaction ==
  /\ sent.op = "runStatementInTransaction" =>
       LET plain == Send(adapter, "runStatement", statement, params)
       IN /\ sent.sql = plain.sql
          /\ sent.values = plain.values
          /\ sent.types = plain.types
  /\ sent.op = "runStatementInTransactionReturnResult" =>
       LET plain == SendReturnResult(adapter, "runStatementReturnResult",
                                     statement, params, sent.idField)
       IN /\ sent.sql = plain.sql
          /\ sent.values = plain.values
          /\ sent.types = plain.types

\* ----------------------------------------------- claims: result delivery
Delivered(a) ==
  /\ adapter = a
  /\ delivered.op \in ReturnResultOps
  /\ delivered.err = NoErr

\* C27: on MySQL the result delivered by runStatementReturnResult and by
\* runStatementInTransactionReturnResult has newRowId equal to the insertId
\* the driver reported, and every other field as the driver reported it.
C27_MysqlNewRowId ==
  Delivered(MYSQL) =>
    LET out == delivered.results.fields
    IN /\ DOMAIN out = DOMAIN results.fields \cup {"newRowId"}
       /\ out.newRowId = results.fields.insertId
       /\ \A f \in DOMAIN results.fields : out[f] = results.fields[f]

\* insertId 42 was delivered as newRowId 42 by the operation in a transaction.
C27_Witness ==
  /\ Delivered(MYSQL)
  /\ delivered.op = "runStatementInTransactionReturnResult"
  /\ results.fields.insertId = 42 /\ results.fields.affectedRows = 1
  /\ delivered.results.fields.newRowId = 42

\* C28: on MSSQL a non-empty row set is delivered as an object whose
\* newRowId is the idField column of the first row and whose resultSet is
\* the row set as the driver gave it; an empty or absent row set is
\* delivered as the driver gave it, without newRowId.
C28_MssqlResultSet ==
  Delivered(MSSQL) =>
    IF results.shape = "array" /\ results.elems # << >>
      THEN /\ delivered.results.shape = "object"
           /\ DOMAIN delivered.results.fields = {"resultSet", "newRowId"}
           /\ delivered.results.fields.resultSet = results
           /\ delivered.results.fields.newRowId
                = Get(Head(results.elems).cols, delivered.idField)
      ELSE delivered.results = results

\* two different rows came back and the id of the first was delivered.
C28_Witness ==
  /\ Delivered(MSSQL)
  /\ results.shape = "array" /\ Len(results.elems) = 2
  /\ results.elems[1] # results.elems[2]
  /\ delivered.idField = "id"
  /\ delivered.results.fields.newRowId = results.elems[1].cols.id
  /\ delivered.results.fields.resultSet = results

HasNewRowId(v) == v.shape = "object" /\ "newRowId" \in DOMAIN v.fields

\* C29: for a statement that is not an insert, the result delivered by
\* runStatementReturnResult carries no newRowId, on any engine.
C29_NewRowIdOnlyForInsert ==
  (delivered.op \in ReturnResultOps /\ delivered.err = NoErr
     /\ ~contains(statement, "insert", FALSE)) =>
    ~HasNewRowId(delivered.results)

\* ------------------------------------------------- claims: joinResultSets
RECURSIVE Concat(_)
Concat(sets) ==
  IF sets = << >> THEN << >> ELSE Head(sets).elems \o Concat(Tail(sets))
RECURSIVE SumLen(_)
SumLen(sets) ==
  IF sets = << >> THEN 0 ELSE Len(Head(sets).elems) + SumLen(Tail(sets))

IsSets(v) ==
  /\ v.shape = "array" /\ v.elems # << >>
  /\ \A i \in DOMAIN v.elems : v.elems[i].shape = "array"
IsRows(v) ==
  /\ v.shape = "array"
  /\ \A i \in DOMAIN v.elems : v.elems[i].shape = "row"

\* C30: joinResultSets returns the rows of a sequence of result sets in set
\* order and row order, as many as the sets hold together; it returns a flat
\* row sequence, an empty and a missing input unchanged; applied to its own
\* output it returns that output.
C30_JoinResultSets ==
  delivered.op = "joinResultSets" =>
    /\ IsSets(results) =>
         /\ delivered.results = Array(Concat(results.elems))
         /\ Len(delivered.results.elems) = SumLen(results.elems)
    /\ (IsRows(results) \/ results = UndefinedResult) =>
         delivered.results = results
    /\ joinResultSets(delivered.results) = delivered.results

\* [[a, b], [a]] was flattened to [a, b, a].
C30_Witness ==
  /\ delivered.op = "joinResultSets"
  /\ IsSets(results) /\ Len(results.elems) = 2
  /\ Len(results.elems[1].elems) = 2 /\ Len(results.elems[2].elems) = 1
  /\ results.elems[1].elems[1] # results.elems[1].elems[2]
  /\ delivered.results.elems
       = <<results.elems[1].elems[1], results.elems[1].elems[2],
           results.elems[2].elems[1]>>

\* ------------------------------------------ claims: prepared statements
\* the event tagged tag of l carries the value x.
Event(l, tag, x) == Has(l, <<tag, x>>)
TagDone(l, tag) == IdxOf(l, tag) # {}

\* C31: in the MSSQL adapter's runQuery and runStatementInTransaction, once
\* the statement has been prepared, the un-prepare is issued when execute
\* has finished, with or without an error, and the caller's callback comes
\* after the un-prepare has completed; an error of the un-prepare never
\* reaches the caller, who gets an error argument of the prepare or execute
\* callback.
C31_UnprepareAlways ==
  adapter = MSSQL =>
    \A o \in Ops :
      (kind[o] \in {"runQuery", "runStatementInTransaction"}
         /\ Event(log[o], "prepareDone", NoErr)) =>
        /\ TagDone(log[o], "executeDone") =>
             /\ Count(log[o], Issue("unprepare")) = 1
             /\ \A i \in Idx(log[o], Issue("unprepare")) :
                  \E j \in IdxOf(log[o], "executeDone") : j < i
        /\ \A i \in IdxOf(log[o], "callback") :
             /\ \E j \in IdxOf(log[o], "unprepareDone") : j < i
             /\ \E j \in Idx(log[o], Issue("unprepare")) : j < i
        /\ CallbackErrs(log[o]) \subseteq
             {log[o][i][2] :
                i \in IdxOf(log[o], "prepareDone")
                       \cup IdxOf(log[o], "executeDone")}

\* execute failed, the un-prepare failed too, and the caller was called
\* back with the execute error.
C31_Witness ==
  \E o \in Ops :
    /\ adapter = MSSQL /\ kind[o] = "runStatementInTransaction"
    /\ pc[o] = "done"
    /\ Event(log[o], "executeDone", "executeErr")
    /\ Event(log[o], "unprepareDone", "unprepareErr")
    /\ CallbackErrs(log[o]) = {"executeErr"}

\* ------------------------------------------------ claims: debug rendering
\* the digits of n in a field of w places.
Digits(n, w) ==
  [i \in 1..w |-> DigitChars[((n \div (10 ^ (w - i))) % 10) + 1]]
\* the characters of a string, each single quote preceded by a backslash.
RECURSIVE Escaped(_)
Escaped(chars) ==
  IF chars = << >> THEN << >>
  ELSE (IF Head(chars) = "'" THEN <<"\\", "'">> ELSE <<Head(chars)>>)
         \o Escaped(Tail(chars))
\* the characters of a string with every '[@]' turned into '@'.
RECURSIVE Unmarked(_)
Unmarked(chars) ==
  IF chars = << >> THEN << >>
  ELSE IF Len(chars) >= 3 /\ SubSeq(chars, 1, 3) = <<"[", "@", "]">>
    THEN <<"@">> \o Unmarked(SubSeq(chars, 4, Len(chars)))
    ELSE <<Head(chars)>> \o Unmarked(Tail(chars))

Quoted(chars) == <<"'">> \o chars \o <<"'">>
DateText(v) ==
  Digits(v.year, 4) \o <<"-">> \o Digits(v.month + 1, 2) \o <<"-">>
    \o Digits(v.date, 2) \o <<" ">> \o Digits(v.hours, 2) \o <<":">>
    \o Digits(v.minutes, 2) \o <<":">> \o Digits(v.seconds, 2) \o <<".">>
    \o Digits(v.milliseconds, 3)
DefaultText(v) ==
  CASE v.t = "number" -> toString(v.n)
    [] v.t = "boolean" -> <<"true">>
    [] v.t = "null" -> <<"null">>
    [] v.t = "undefined" -> <<"undefined">>

\* the rendering of a value: every string quoted, or a string that begins
\* with '[@]' left unquoted.
Rendering(v, markers) ==
  CASE v.t = "string" ->
         IF markers /\ Len(v.chars) >= 3
              /\ SubSeq(v.chars, 1, 3) = <<"[", "@", "]">>
           THEN Unmarked(v.chars)
           ELSE Quoted(Escaped(v.chars))
    [] v.t = "date" -> Quoted(DateText(v))
    [] OTHER -> DefaultText(v)

\* the text with its k-th '?' replaced by the rendering of the k-th
\* parameter, from the k-th on.
RECURSIVE Substituted(_, _, _, _)
Substituted(str, p, k, markers) ==
  IF str = << >> THEN << >>
  ELSE IF Head(str) = "?"
    THEN Rendering(At(p, k - 1), markers)
           \o Substituted(Tail(str), p, k + 1, markers)
    ELSE <<Head(str)>> \o Substituted(Tail(str), p, k, markers)

IsRendered == delivered.op = "queryToString"

\* C32, as stated: queryToString replaces the k-th '?' by the rendering of
\* the k-th parameter and copies every other character; every string is
\* wrapped in single quotes with its quotes escaped, a date is rendered
\* quoted as YYYY-MM-DD HH:MM:SS.mmm, any other value by its default text.
C32_EveryStringQuoted ==
  IsRendered =>
    delivered.results = Text(Substituted(statement, params, 1, FALSE))

\* C32, amended: as above, except that a string that begins with '[@]' is
\* rendered without quotes and escapes, each '[@]' in it turned into '@';
\* and the call changes no state of the module.
C32_State ==
  IsRendered =>
    delivered.results = Text(Substituted(statement, params, 1, TRUE))
C32_Step ==
  UNCHANGED <<adapter, isConfigured, currentAdapter, dbOptions, poolReady>>
C32_QueryToString == [](C32_State) /\ [][C32_Step]_vars

\* a text with two placeholders was rendered with a string that holds a
\* quote and with a date.
C32_Witness ==
  /\ IsRendered
  /\ Placeholders(statement) = 2 /\ Len(params) = 2
  /\ params[1] = Text(<<"a", "'", "b">>)
  /\ params[2].t = "date"
  /\ Head(statement) = "a"
  /\ \E i \in DOMAIN delivered.results.chars :
       /\ delivered.results.chars[i] = "\\"
       /\ delivered.results.chars[i + 1] = "'"

\* ----------------------------------------- claims: overlapping configure
\* C33: under any interleaving of overlapping configure calls, whenever
\* isConfigured is true the stored adapter name is set, names the module held
\* as the current adapter, and that adapter's configure has completed
\* without an error.
C33_ConfiguredIsConsistent ==
  isConfigured =>
    /\ adapter \in Adapters
    /\ adapter = currentAdapter
    /\ poolReady[currentAdapter]

\* ------------------------------------------- claims: the caller's callback
Callbacks(l) == Cardinality(IdxOf(l, "callback"))
Running(o) == kind[o] = "runTransaction" /\ pc[o] \notin {"idle", "done"}

\* C34: on every adapter a runTransaction call invokes the caller's callback
\* at most once on every path, and, when every driver call completes and the
\* unit of work gives its completion signal once, eventually once.
C34_AtMostOnce ==
  \A o \in Ops :
    kind[o] = "runTransaction" =>
      /\ Callbacks(log[o]) <= 1
      /\ pc[o] = "done" <=> Callbacks(log[o]) = 1
C34_CallbackExactlyOnce ==
  /\ [](C34_AtMostOnce)
  /\ \A o \in Ops : Running(o) ~> (pc[o] = "done" /\ Callbacks(log[o]) = 1)

\* the same for a call through the Facade or on an adapter module at any
\* moment of the module's life: the call calls back at once or starts the
\* driver call whose completion leads to the callback.
C34_EveryCallCallsBack ==
  (lastCall.op = "runTransaction" /\ lastCall.layer \in {"facade", "adapter"}) =>
    \E c \in DOMAIN lastCall.out :
      lastCall.out[c][1] \in {"callback", "issue"}

\* a transaction whose commit failed has called back once.
C34_Witness ==
  \E o \in Ops :
    /\ kind[o] = "runTransaction" /\ pc[o] = "done"
    /\ Has(log[o], <<"commitDone", "commitErr">>)
    /\ Callbacks(log[o]) = 1

\* ------------------------------- claims: runStatement of the MSSQL adapter
IsMssqlStatement(o) == adapter = MSSQL /\ kind[o] = "runStatement"
StatementErrs(l) == {l[i][2] : i \in IdxOf(l, "statementDone")}
Before(l, x, tag) ==
  \A i \in IdxOf(l, tag) : \E j \in Idx(l, x) : j < i

\* C35: runStatement of the MSSQL adapter begins a transaction first, commits
\* iff the statement succeeded and rolls back iff it failed; after a failed
\* statement the caller receives the statement's error, not the rollback's,
\* and no result; and once the statement has run the caller's callback comes
\* only after the commit or the rollback has completed.
C35_StatementInOwnTransaction ==
  \A o \in Ops :
    IsMssqlStatement(o) =>
      LET l == log[o]
          failed == StatementErrs(l) \ {NoErr} # {}
          tried == StatementErrs(l) # {}
      IN /\ l # << >> /\ l[1] = Issue("begin")
         /\ Before(l, <<"beginDone", NoErr>>, "prepareDone")
         /\ Has(l, Issue("commit")) <=> (tried /\ ~failed)
         /\ Has(l, Issue("rollback")) <=> failed
         /\ (failed /\ pc[o] = "done") =>
              /\ CallbackErrs(l) = StatementErrs(l)
              /\ ~Has(l, PassResult)
         /\ (tried /\ pc[o] = "done") =>
              \E i \in IdxOf(l, "commitDone") \cup IdxOf(l, "rollbackDone") :
                \A j \in IdxOf(l, "callback") : i < j

\* the execution failed and so did the rollback: the caller has the
\* execution's error.
C35_Witness ==
  \E o \in Ops :
    /\ IsMssqlStatement(o) /\ pc[o] = "done"
    /\ Has(log[o], <<"executeDone", "executeErr">>)
    /\ Has(log[o], <<"rollbackDone", "rollbackErr">>)
    /\ CallbackErrs(log[o]) = {"executeErr"}

\* ------------------------------------------ claims: the configured flag
ConfigureSucceeded(call) ==
  call.op \in {"configure", "configureCallback"} /\ call.out = <<Callback(NoErr)>>

\* C36: the Facade's configured flag becomes true only when an adapter's
\* configure completes without error, and once it is true no operation, a
\* close included, resets it; a configure that follows is a no-op that
\* leaves the adapter and its pool as they are, and the operations are still
\* forwarded to the adapter.
C36_Step ==
  /\ isConfigured => isConfigured'
  /\ (~isConfigured /\ isConfigured') => ConfigureSucceeded(lastCall')
  /\ (isConfigured /\ lastCall'.op = "configure" /\ lastCall' # lastCall) =>
       /\ lastCall'.out = <<Callback(NoErr)>>
       /\ UNCHANGED <<adapter, currentAdapter, dbOptions, poolReady, connecting>>
  /\ (isConfigured /\ lastCall'.layer = "facade" /\ lastCall'.op \in PublicOps) =>
       /\ lastCall'.target = currentAdapter
       /\ lastCall'.out =
            AdapterOperation(currentAdapter, lastCall'.op, poolReady[currentAdapter])
C36_ConfiguredIsMonotonic == [][C36_Step]_vars

\* a close has been forwarded to the adapter and the flag is still set.
C36_Witness ==
  /\ lastCall.layer = "facade" /\ lastCall.op = "close" /\ lastCall.was
  /\ lastCall.target = currentAdapter /\ currentAdapter \in Adapters
  /\ lastCall.out # <<Callback(NotConfigured)>>
  /\ isConfigured

\* ------------------------------------------ claims: the statement builders
RECURSIVE Joined(_, _)
Joined(pieces, sep) ==
  IF pieces = << >> THEN << >>
  ELSE IF Len(pieces) = 1 THEN pieces[1]
  ELSE (pieces[1] \o sep) \o Joined(Tail(pieces), sep)

IsOwn(property) == property.own
IsSet(property) == property.own /\ property.value.t \notin {"null", "undefined"}
KeysOf(properties) == [i \in DOMAIN properties |-> properties[i].key]
ValuesOf(properties) == [i \in DOMAIN properties |-> properties[i].value]
Assignments(properties) ==
  [i \in DOMAIN properties |-> properties[i].key \o <<" ", "=", " ", "?", " ">>]
Marks(properties) == [i \in DOMAIN properties |-> <<"?">>]
Built(name) == delivered.op = name

\* C37: generateInsertObject emits one column name and one '?' for every own
\* key whose value is neither null nor undefined, in the order of the keys,
\* with params holding those values in that order, so that the statement has
\* as many placeholders as params has elements; generateUpdateObject emits
\* one 'key = ?' for every own key, with params holding those values in the
\* order of the keys followed by conditionParams in their order.
C37_BuildersKeepAlignment ==
  LET tableName == results.fields.tableName
      parameters == results.fields.parameters
      built == delivered.results.fields
  IN /\ Built("generateInsertObject") =>
          LET set == SelectSeq(parameters, IsSet)
          IN /\ built.sql =
                  <<"I", "N", "S", "E", "R", "T", " ", "I", "N", "T", "O", " ">>
                    \o tableName \o <<" ", "(">> \o Joined(KeysOf(set), <<",", " ">>)
                    \o <<")", " ", "V", "A", "L", "U", "E", "S", " ", "(">>
                    \o Joined(Marks(set), <<",", " ">>) \o <<")">>
             /\ built.params = ValuesOf(set)
             /\ Placeholders(built.sql) = Len(built.params)
     /\ Built("generateUpdateObject") =>
          LET own == SelectSeq(parameters, IsOwn)
          IN /\ built.sql =
                  <<"U", "P", "D", "A", "T", "E", " ">> \o tableName
                    \o <<" ", "S", "E", "T", " ">>
                    \o Joined(Assignments(own), <<",", " ">>)
                    \o <<"W", "H", "E", "R", "E", " ">> \o statement
             /\ built.params = ValuesOf(own) \o params

\* an insert of three properties of which one is null and one is 0: two
\* columns, two placeholders, two parameters.
C37_Witness ==
  /\ Built("generateInsertObject")
  /\ Len(results.fields.parameters) = 3
  /\ \E i, j \in 1..3 :
       /\ results.fields.parameters[i] = Property(<<"a">>, NullValue, TRUE)
       /\ results.fields.parameters[j] = Property(<<"b">>, Number(0), TRUE)
  /\ Len(delivered.results.fields.params) = 2
  /\ Placeholders(delivered.results.fields.sql) = 2

\* an update whose parameters hold a null and whose conditions have two
\* parameters.
C37_WitnessUpdate ==
  /\ Built("generateUpdateObject")
  /\ \E i \in DOMAIN results.fields.parameters :
       results.fields.parameters[i] = Property(<<"a">>, NullValue, TRUE)
  /\ Len(params) = 2
  /\ Len(delivered.results.fields.params) = Len(results.fields.parameters) + 2

\* ------------------------------------------------ claims: the typed mode
TypedMode(p) == p # << >> /\ \A i \in DOMAIN p : IsTyped(p[i])
\* the last parameter of the list declared under the name.
LastNamed(p, name) == p[Max({i \in DOMAIN p : p[i].name = name})]

\* C38: when the MSSQL adapter gets a list of typed-parameter objects, the
\* statement goes to the driver as it is, '?' included, every parameter is
\* registered under its declared name with its declared type, and the values
\* object has one entry for every distinct declared name, bound to the value
\* of the parameter of that name (of the last one when a name comes twice).
C38_TypedMode ==
  (sent.by = MSSQL /\ TypedMode(params)) =>
    /\ sent.sql = statement
    /\ DOMAIN sent.types = {params[i].name : i \in DOMAIN params}
    /\ DOMAIN sent.values = {params[i].name : i \in DOMAIN params}
    /\ \A i \in DOMAIN params :
         /\ sent.types[params[i].name] = params[i].type
         /\ sent.values[params[i].name] = LastNamed(params, params[i].name).value

\* a statement with a '?' and three typed parameters of two names.
C38_Witness ==
  /\ sent.by = MSSQL /\ TypedMode(params)
  /\ Placeholders(statement) > 0 /\ sent.sql = statement
  /\ Len(params) = 3 /\ Cardinality(DOMAIN sent.values) = 2
  /\ sent.values[<<"i", "d">>] = DecimalValue
  /\ sent.types[<<"n">>] = "NVarChar"

====
